---------------------------- MODULE Spec2Model ----------------------------
(***************************************************************************)
(* Model of the measurement pipeline of the motion tracker:                *)
(*   - the coordinate store (stores/coordinates.ts),                       *)
(*   - the pixel <-> world transforms (lib/transforms.ts),                 *)
(*   - the kinematics engine and the regression (lib/kinematics.ts),       *)
(*   - the tracking store with its undo history (stores/tracking.ts),      *)
(*   - the rows of the data table (features/data-table).                   *)
(*                                                                         *)
(* A JavaScript number is a binary floating-point number: every operation  *)
(* returns the representable number nearest to the exact result, ties to   *)
(* even.  The model keeps that rule and shortens the significand from 53   *)
(* bits to Precision bits, with no bound on the exponent (no overflow, no  *)
(* underflow).  A finite number is <<m, e>>, standing for m * 2^e, with m  *)
(* odd, or <<0, 0>>; 0 and -0 are not told apart.  <<1,0,0>>, <<-1,0,0>>   *)
(* and <<0,0,0>> are Infinity, -Infinity and NaN.  null is the empty       *)
(* tuple.                                                                  *)
(***************************************************************************)
EXTENDS Integers, Sequences, FiniteSets, TLC

VARIABLES
    \* the coordinate store (useCoordinateStore)
    scalePoint1, scalePoint2, scaleDistance, scaleUnit,
    origin, rotation, yAxisUp, pixelsPerUnit,
    \* a caller of the transforms: its system, its input and what it got
    tSys, tIn, tOp, tOut, tBack,
    \* a caller of the kinematics engine: its samples and what it got
    kData, kOp, kVel, kAcc,
    \* a caller of the regression: its points and what it got
    rPoints, rOp, rOut,
    \* the tracking store (useTrackingStore)
    dataPoints, selectedPointId, currentFrame, isPlaying, trailLength,
    autoAdvance,
    \* its undo history (useTrackingStore.temporal) and the next fresh id
    pastStates, futureStates, nextId,
    \* what a user of the tracking store has seen: the last operations, the
    \* points before the last operation, before and after the last data
    \* mutation, how the last operations follow each other, the points after
    \* each mutation since the history was empty, the undos made since and
    \* the number of operations so far
    recent, prevData, baseData, afterData, phase, trail, undone, opCount,
    \* the data table: the points and the system it was computed from, its rows
    tabPoints, tabSystem, tabOp, tabRows,
    \* the video store (useVideoStore)
    metadata, videoFrame, videoTime, videoPlaying, playbackSpeed,
    \* the frame last asked of its setCurrentFrame, since the metadata was set
    vAsked,
    \* the project page: its mode and the placement under way
    mode, placementMode,
    \* a caller of the transforms of the coordinate store: its input and what
    \* it got
    sIn, sOp, sOut,
    \* a caller of the CSV export: its rows, its columns and what it got
    cData, cColumns, cOp, cOut

coordVars == <<scalePoint1, scalePoint2, scaleDistance, scaleUnit,
               origin, rotation, yAxisUp, pixelsPerUnit>>
transVars == <<tSys, tIn, tOp, tOut, tBack>>
kinVars   == <<kData, kOp, kVel, kAcc>>
regVars   == <<rPoints, rOp, rOut>>
storeVars == <<dataPoints, selectedPointId, currentFrame, isPlaying, trailLength,
               autoAdvance>>
trackVars == <<storeVars, pastStates, futureStates, nextId,
               recent, prevData, baseData, afterData, phase, trail, undone,
               opCount>>
tableVars == <<tabPoints, tabSystem, tabOp, tabRows>>
videoVars == <<metadata, videoFrame, videoTime, videoPlaying, playbackSpeed,
               vAsked>>
routeVars == <<mode, placementMode>>
callVars  == <<sIn, sOp, sOut>>
csvVars   == <<cData, cColumns, cOp, cOut>>
restVars  == <<videoVars, routeVars, callVars, csvVars>>
vars      == <<coordVars, transVars, kinVars, regVars, trackVars, tableVars,
               restVars>>

NULL == <<>>

---------------------------------------------------------------------------
(* Numbers *)

\* bits of the significand (53 in the program)
Precision == 11

Abs(a) == IF a < 0 THEN -a ELSE a

Sign(a) == IF a < 0 THEN -1 ELSE IF a > 0 THEN 1 ELSE 0

\* the number of bits of m >= 0
RECURSIVE BitLen(_)
BitLen(m) == IF m = 0 THEN 0 ELSE 1 + BitLen(m \div 2)

\* m * 2^e with m made odd
RECURSIVE Canon(_, _)
Canon(m, e) ==
    IF m = 0 THEN <<0, 0>>
    ELSE IF m % 2 = 0 THEN Canon(m \div 2, e + 1) ELSE <<m, e>>

NaN  == <<0, 0, 0>>

IsFinite(a) == Len(a) = 2

RNeg(a) == IF IsFinite(a) THEN <<-a[1], a[2]>> ELSE NaN

\* 1 if hi + low / (2 * half) rounds up to hi + 1 (ties to even), else 0
RoundsUp(hi, low, half, sticky) ==
    IF low > half \/ (low = half /\ (sticky \/ hi % 2 = 1)) THEN 1 ELSE 0

\* m * 2^e with the last drop bits of m rounded away
RoundBits(m, e, sticky, drop) ==
    IF drop <= 0 THEN Canon(m, e)
    ELSE Canon(m \div 2^drop
                   + RoundsUp(m \div 2^drop, m % 2^drop, 2^(drop - 1), sticky),
               e + drop)

\* the number nearest to m * 2^e, m >= 0, ties to even; sticky says that the
\* exact value lies strictly between m * 2^e and (m + 1) * 2^e
RoundMag(m, e, sticky) == RoundBits(m, e, sticky, BitLen(m) - Precision)

Round(m, e) == IF m < 0 THEN RNeg(RoundMag(-m, e, FALSE)) ELSE RoundMag(m, e, FALSE)

\* the number nearest to (n / d) * 2^e with n shifted left by k bits first
DivShifted(n, d, e, k) ==
    IF Sign(n) * Sign(d) < 0
    THEN RNeg(RoundMag((Abs(n) * 2^k) \div Abs(d), e - k, (Abs(n) * 2^k) % Abs(d) # 0))
    ELSE RoundMag((Abs(n) * 2^k) \div Abs(d), e - k, (Abs(n) * 2^k) % Abs(d) # 0)

\* the number nearest to (n / d) * 2^e, for integers n and d # 0
DivInts(n, d, e) ==
    IF BitLen(Abs(d)) + Precision + 1 > BitLen(Abs(n))
    THEN DivShifted(n, d, e, BitLen(Abs(d)) + Precision + 1 - BitLen(Abs(n)))
    ELSE DivShifted(n, d, e, 0)

\* an integer literal, a decimal literal n/d
Num(i) == Round(i, 0)
Dec(n, d) == DivInts(n, d, 0)
Zero == <<0, 0>>
One  == <<1, 0>>

\* the sum of Mh * 2^Eh and Ml * 2^El, both significands of Precision bits,
\* Eh >= El; big is the first of the two
AddAligned(Mh, Eh, Ml, El, big) ==
    IF Eh - El > Precision + 1 THEN big
    ELSE Round(Mh * 2^(Eh - El) + Ml, El)

\* a non-finite operand makes the result NaN (a simplification of the
\* arithmetic on Infinity; no guarded path of the code reaches it)
RAdd(a, b) ==
    IF ~IsFinite(a) \/ ~IsFinite(b) THEN NaN
    ELSE IF a[1] = 0 THEN b
    ELSE IF b[1] = 0 THEN a
    ELSE LET ka == Precision - BitLen(Abs(a[1]))
             kb == Precision - BitLen(Abs(b[1]))
         IN  IF a[2] - ka >= b[2] - kb
             THEN AddAligned(a[1] * 2^ka, a[2] - ka, b[1] * 2^kb, b[2] - kb, a)
             ELSE AddAligned(b[1] * 2^kb, b[2] - kb, a[1] * 2^ka, a[2] - ka, b)

RSub(a, b) == RAdd(a, RNeg(b))

RMul(a, b) ==
    IF IsFinite(a) /\ IsFinite(b) THEN Round(a[1] * b[1], a[2] + b[2]) ELSE NaN

\* x / 0 is Infinity, -Infinity or (0 / 0) NaN
RDiv(a, b) ==
    IF ~IsFinite(a) \/ ~IsFinite(b) THEN NaN
    ELSE IF b[1] = 0 THEN <<Sign(a[1]), 0, 0>>
    ELSE IF a[1] = 0 THEN Zero
    ELSE DivInts(a[1], b[1], a[2] - b[2])

\* a < b
RLt(a, b) == IsFinite(a) /\ IsFinite(b) /\ RSub(b, a)[1] > 0

\* the largest r in lo..hi with r * r <= n, given lo * lo <= n
RECURSIVE RootBetween(_, _, _)
RootBetween(n, lo, hi) ==
    IF lo = hi THEN lo
    ELSE IF ((lo + hi + 1) \div 2) * ((lo + hi + 1) \div 2) <= n
         THEN RootBetween(n, (lo + hi + 1) \div 2, hi)
         ELSE RootBetween(n, lo, (lo + hi + 1) \div 2 - 1)

\* the number nearest to sqrt(R) * 2^e, s the whole part of sqrt(R)
RootRounded(R, s, e) == RoundMag(s, e, s * s # R)

\* the number nearest to sqrt(m * 2^e), m > 0, with m shifted left by k bits
\* to make e - k even
SqrtShifted(m, e, k) ==
    RootRounded(m * 2^k, RootBetween(m * 2^k, 0, 2^(Precision + 1)), (e - k) \div 2)

\* Math.sqrt
Sqrt(a) ==
    IF ~IsFinite(a) \/ a[1] < 0 THEN NaN
    ELSE IF a[1] = 0 THEN Zero
    ELSE IF (a[2] - (2 * Precision + 1 - BitLen(a[1]))) % 2 = 0
         THEN SqrtShifted(a[1], a[2], 2 * Precision + 1 - BitLen(a[1]))
         ELSE SqrtShifted(a[1], a[2], 2 * Precision + 2 - BitLen(a[1]))

Pt(x, y) == [x |-> x, y |-> y]
IPt(i, j) == Pt(Num(i), Num(j))

\* Math.PI: the number nearest to pi, here to 103993/33102
PiNum == 103993
PiDen == 33102
PI == Dec(PiNum, PiDen)

\* (rotation * Math.PI) / 180
Theta(deg) == RDiv(RMul(Num(deg), PI), Num(180))

\* th - q * (pi / 2): how far the rounded angle th is from the exact one
AngleError(th, q) ==
    IF th[2] >= 0
    THEN DivInts(th[1] * 2^th[2] * 2 * PiDen - q * PiNum, 2 * PiDen, 0)
    ELSE DivInts(th[1] * 2 * PiDen - q * PiNum * 2^(-th[2]), 2 * PiDen, th[2])

\* Theta(deg) - (deg / 90) * (pi / 2), deg a multiple of 90
ThetaError(deg) == AngleError(Theta(deg), deg \div 90)

\* cos and sin of q * (pi / 2) + d, for d so small that cos d rounds to 1
\* and sin d to d
CosNear(q, d) ==
    IF q = 0 THEN One ELSE IF q = 1 THEN RNeg(d) ELSE IF q = 2 THEN RNeg(One) ELSE d
SinNear(q, d) ==
    IF q = 0 THEN d ELSE IF q = 1 THEN One ELSE IF q = 2 THEN RNeg(d) ELSE RNeg(One)

\* Math.cos, Math.sin of Theta(deg), deg a multiple of 90
CosDeg(deg) == IF deg = 0 THEN One ELSE CosNear((deg \div 90) % 4, ThetaError(deg))
SinDeg(deg) == IF deg = 0 THEN Zero ELSE SinNear((deg \div 90) % 4, ThetaError(deg))

---------------------------------------------------------------------------
(* lib/transforms.ts *)

\* mutant: only the null test guards the division, a zero scale divides
pixelToWorld_zeroUnguarded(pixel, system) ==
    IF system.pixelsPerUnit = NULL THEN NULL
    ELSE LET translated == Pt(RSub(pixel.x, system.origin.x),
                              RSub(pixel.y, system.origin.y))
             cos == CosDeg(system.rotation)
             sin == SinDeg(system.rotation)
             rotated == Pt(RAdd(RMul(translated.x, cos), RMul(translated.y, sin)),
                           RAdd(RMul(RNeg(translated.x), sin),
                                RMul(translated.y, cos)))
             yAdjusted == Pt(rotated.x,
                             IF system.yAxisUp THEN RNeg(rotated.y) ELSE rotated.y)
         IN  Pt(RDiv(yAdjusted.x, system.pixelsPerUnit),
                RDiv(yAdjusted.y, system.pixelsPerUnit))

\* mutant: Y is negated when yAxisUp is false
pixelToWorld_flipInverted(pixel, system) ==
    IF system.pixelsPerUnit = NULL \/ system.pixelsPerUnit = Zero THEN NULL
    ELSE LET translated == Pt(RSub(pixel.x, system.origin.x),
                              RSub(pixel.y, system.origin.y))
             cos == CosDeg(system.rotation)
             sin == SinDeg(system.rotation)
             rotated == Pt(RAdd(RMul(translated.x, cos), RMul(translated.y, sin)),
                           RAdd(RMul(RNeg(translated.x), sin),
                                RMul(translated.y, cos)))
             yAdjusted == Pt(rotated.x,
                             IF system.yAxisUp THEN rotated.y ELSE RNeg(rotated.y))
         IN  Pt(RDiv(yAdjusted.x, system.pixelsPerUnit),
                RDiv(yAdjusted.y, system.pixelsPerUnit))

pixelToWorld(pixel, system) ==
    IF system.pixelsPerUnit = NULL \/ system.pixelsPerUnit = Zero THEN NULL
    ELSE LET translated == Pt(RSub(pixel.x, system.origin.x),
                              RSub(pixel.y, system.origin.y))
             cos == CosDeg(system.rotation)
             sin == SinDeg(system.rotation)
             rotated == Pt(RAdd(RMul(translated.x, cos), RMul(translated.y, sin)),
                           RAdd(RMul(RNeg(translated.x), sin),
                                RMul(translated.y, cos)))
             yAdjusted == Pt(rotated.x,
                             IF system.yAxisUp THEN RNeg(rotated.y) ELSE rotated.y)
         IN  Pt(RDiv(yAdjusted.x, system.pixelsPerUnit),
                RDiv(yAdjusted.y, system.pixelsPerUnit))

\* mutant: the Y axis is not flipped back
worldToPixel_flipMissing(world, system) ==
    IF system.pixelsPerUnit = NULL \/ system.pixelsPerUnit = Zero THEN NULL
    ELSE LET scaled == Pt(RMul(world.x, system.pixelsPerUnit),
                          RMul(world.y, system.pixelsPerUnit))
             cos == CosDeg(system.rotation)
             sin == SinDeg(system.rotation)
             rotated == Pt(RSub(RMul(scaled.x, cos), RMul(scaled.y, sin)),
                           RAdd(RMul(scaled.x, sin), RMul(scaled.y, cos)))
         IN  Pt(RAdd(rotated.x, system.origin.x),
                RAdd(rotated.y, system.origin.y))

worldToPixel(world, system) ==
    IF system.pixelsPerUnit = NULL \/ system.pixelsPerUnit = Zero THEN NULL
    ELSE LET scaled == Pt(RMul(world.x, system.pixelsPerUnit),
                          RMul(world.y, system.pixelsPerUnit))
             yAdjusted == Pt(scaled.x,
                             IF system.yAxisUp THEN RNeg(scaled.y) ELSE scaled.y)
             cos == CosDeg(system.rotation)
             sin == SinDeg(system.rotation)
             rotated == Pt(RSub(RMul(yAdjusted.x, cos), RMul(yAdjusted.y, sin)),
                           RAdd(RMul(yAdjusted.x, sin), RMul(yAdjusted.y, cos)))
         IN  Pt(RAdd(rotated.x, system.origin.x),
                RAdd(rotated.y, system.origin.y))

---------------------------------------------------------------------------
(* stores/coordinates.ts *)

\* the values the callers of the store pass in
ScalePts   == {IPt(0, 0), IPt(100, 0), IPt(100, 75)}
Distances  == {Num(0), Num(1), Num(2), Num(-1)}
Units      == {"m", "cm", "mm", "ft", "in"}
Origins    == {IPt(0, 0), IPt(50, 50)}
Rotations  == {0, 90, 180, 270}

\* what a saved project can hold: a point or the distance may be missing
SavedSystems ==
    [scalePoint1 : {NULL, IPt(0, 0)}, scalePoint2 : ScalePts \cup {NULL},
     scaleDistance : {NULL, Num(0), Num(2)}, scaleUnit : {"cm"},
     origin : {IPt(50, 50)}, rotation : {90}, yAxisUp : {FALSE}]

initialState ==
    [scalePoint1 |-> NULL, scalePoint2 |-> NULL, scaleDistance |-> One,
     scaleUnit |-> "m", origin |-> IPt(0, 0), rotation |-> 0,
     yAxisUp |-> TRUE, pixelsPerUnit |-> NULL]

\* mutant: any non-zero distance calibrates, a negative one included
recalculatePixelsPerUnit_nonZeroDistance(sp1, sp2, dist) ==
    IF sp1 # NULL /\ sp2 # NULL /\ dist # NULL /\ dist # Zero
    THEN LET dx == RSub(sp2.x, sp1.x)
             dy == RSub(sp2.y, sp1.y)
             pixelDistance == Sqrt(RAdd(RMul(dx, dx), RMul(dy, dy)))
         IN  RDiv(pixelDistance, dist)
    ELSE NULL

\* the value recalculatePixelsPerUnit stores in state.pixelsPerUnit
recalculatePixelsPerUnit(sp1, sp2, dist) ==
    IF sp1 # NULL /\ sp2 # NULL /\ dist # NULL /\ RLt(Zero, dist)
    THEN LET dx == RSub(sp2.x, sp1.x)
             dy == RSub(sp2.y, sp1.y)
             pixelDistance == Sqrt(RAdd(RMul(dx, dx), RMul(dy, dy)))
         IN  RDiv(pixelDistance, dist)
    ELSE NULL

\* what setScalePoint1 does to the store
SetScalePoint1InStore(point) ==
    /\ scalePoint1' = point
    /\ UNCHANGED <<scalePoint2, scaleDistance, scaleUnit, origin, rotation, yAxisUp>>
    /\ pixelsPerUnit' = recalculatePixelsPerUnit(scalePoint1', scalePoint2', scaleDistance')

setScalePoint1(point) ==
    /\ SetScalePoint1InStore(point)
    /\ UNCHANGED <<transVars, kinVars, regVars, trackVars, tableVars, restVars>>

\* what setScalePoint2 does to the store
SetScalePoint2InStore(point) ==
    /\ scalePoint2' = point
    /\ UNCHANGED <<scalePoint1, scaleDistance, scaleUnit, origin, rotation, yAxisUp>>
    /\ pixelsPerUnit' = recalculatePixelsPerUnit(scalePoint1', scalePoint2', scaleDistance')

setScalePoint2(point) ==
    /\ SetScalePoint2InStore(point)
    /\ UNCHANGED <<transVars, kinVars, regVars, trackVars, tableVars, restVars>>

\* mutant: the distance is stored and pixelsPerUnit keeps its old value
setScaleDistance_noRecalc(distance) ==
    /\ scaleDistance' = distance
    /\ UNCHANGED <<scalePoint1, scalePoint2, scaleUnit, origin, rotation, yAxisUp,
                   pixelsPerUnit>>
    /\ UNCHANGED <<transVars, kinVars, regVars, trackVars, tableVars, restVars>>

setScaleDistance(distance) ==
    /\ scaleDistance' = distance
    /\ UNCHANGED <<scalePoint1, scalePoint2, scaleUnit, origin, rotation, yAxisUp>>
    /\ pixelsPerUnit' = recalculatePixelsPerUnit(scalePoint1', scalePoint2', scaleDistance')
    /\ UNCHANGED <<transVars, kinVars, regVars, trackVars, tableVars, restVars>>

setScaleUnit(unit) ==
    /\ scaleUnit' = unit
    /\ UNCHANGED <<scalePoint1, scalePoint2, scaleDistance, origin, rotation,
                   yAxisUp, pixelsPerUnit>>
    /\ UNCHANGED <<transVars, kinVars, regVars, trackVars, tableVars, restVars>>

\* what setOrigin does to the store
SetOriginInStore(point) ==
    /\ origin' = point
    /\ UNCHANGED <<scalePoint1, scalePoint2, scaleDistance, scaleUnit, rotation,
                   yAxisUp, pixelsPerUnit>>

setOrigin(point) ==
    /\ SetOriginInStore(point)
    /\ UNCHANGED <<transVars, kinVars, regVars, trackVars, tableVars, restVars>>

setRotation(degrees) ==
    /\ rotation' = degrees
    /\ UNCHANGED <<scalePoint1, scalePoint2, scaleDistance, scaleUnit, origin,
                   yAxisUp, pixelsPerUnit>>
    /\ UNCHANGED <<transVars, kinVars, regVars, trackVars, tableVars, restVars>>

setYAxisUp(up) ==
    /\ yAxisUp' = up
    /\ UNCHANGED <<scalePoint1, scalePoint2, scaleDistance, scaleUnit, origin,
                   rotation, pixelsPerUnit>>
    /\ UNCHANGED <<transVars, kinVars, regVars, trackVars, tableVars, restVars>>

hydrate(system) ==
    /\ scalePoint1' = system.scalePoint1
    /\ scalePoint2' = system.scalePoint2
    /\ scaleDistance' = system.scaleDistance
    /\ scaleUnit' = system.scaleUnit
    /\ origin' = system.origin
    /\ rotation' = system.rotation
    /\ yAxisUp' = system.yAxisUp
    /\ pixelsPerUnit' = recalculatePixelsPerUnit(scalePoint1', scalePoint2', scaleDistance')
    /\ UNCHANGED <<transVars, kinVars, regVars, trackVars, tableVars, restVars>>

reset ==
    /\ scalePoint1' = initialState.scalePoint1
    /\ scalePoint2' = initialState.scalePoint2
    /\ scaleDistance' = initialState.scaleDistance
    /\ scaleUnit' = initialState.scaleUnit
    /\ origin' = initialState.origin
    /\ rotation' = initialState.rotation
    /\ yAxisUp' = initialState.yAxisUp
    /\ pixelsPerUnit' = initialState.pixelsPerUnit
    /\ UNCHANGED <<transVars, kinVars, regVars, trackVars, tableVars, restVars>>

CoordInit ==
    /\ scalePoint1 = initialState.scalePoint1
    /\ scalePoint2 = initialState.scalePoint2
    /\ scaleDistance = initialState.scaleDistance
    /\ scaleUnit = initialState.scaleUnit
    /\ origin = initialState.origin
    /\ rotation = initialState.rotation
    /\ yAxisUp = initialState.yAxisUp
    /\ pixelsPerUnit = initialState.pixelsPerUnit

\* !value, for a number or null
Falsy(value) == value = NULL \/ value = Zero \/ value = NaN

\* the pixelToWorld of the store itself
storePixelToWorld(pixel) ==
    IF Falsy(pixelsPerUnit) THEN IPt(0, 0)
    ELSE LET translated == Pt(RSub(pixel.x, origin.x), RSub(pixel.y, origin.y))
             cos == CosDeg(rotation)
             sin == SinDeg(rotation)
             rotated == Pt(RAdd(RMul(translated.x, cos), RMul(translated.y, sin)),
                           RAdd(RMul(RNeg(translated.x), sin),
                                RMul(translated.y, cos)))
             yAdjusted == Pt(rotated.x,
                             IF yAxisUp THEN RNeg(rotated.y) ELSE rotated.y)
         IN  Pt(RDiv(yAdjusted.x, pixelsPerUnit), RDiv(yAdjusted.y, pixelsPerUnit))

\* the worldToPixel of the store itself
storeWorldToPixel(world) ==
    IF Falsy(pixelsPerUnit) THEN IPt(0, 0)
    ELSE LET scaled == Pt(RMul(world.x, pixelsPerUnit), RMul(world.y, pixelsPerUnit))
             yAdjusted == Pt(scaled.x,
                             IF yAxisUp THEN RNeg(scaled.y) ELSE scaled.y)
             cos == CosDeg(rotation)
             sin == SinDeg(rotation)
             rotated == Pt(RSub(RMul(yAdjusted.x, cos), RMul(yAdjusted.y, sin)),
                           RAdd(RMul(yAdjusted.x, sin), RMul(yAdjusted.y, cos)))
         IN  Pt(RAdd(rotated.x, origin.x), RAdd(rotated.y, origin.y))

\* a caller of the two: useCoordinateStore.getState().pixelToWorld(pixel)
CallIdle ==
    /\ sIn = IPt(0, 0)
    /\ sOp = "idle"
    /\ sOut = NULL

CallStorePixelToWorld(pixel) ==
    /\ sIn' = pixel
    /\ sOp' = "pixelToWorld"
    /\ sOut' = storePixelToWorld(pixel)
    /\ UNCHANGED <<coordVars, transVars, kinVars, regVars, trackVars, tableVars,
                   videoVars, routeVars, csvVars>>

CallStoreWorldToPixel(world) ==
    /\ sIn' = world
    /\ sOp' = "worldToPixel"
    /\ sOut' = storeWorldToPixel(world)
    /\ UNCHANGED <<coordVars, transVars, kinVars, regVars, trackVars, tableVars,
                   videoVars, routeVars, csvVars>>

---------------------------------------------------------------------------
(* a caller of lib/transforms.ts *)

\* the systems and points handed to the transforms
PpuValues == {NULL, Num(0), Num(1), Num(100), Dec(1, 2), Num(-2)}
Systems ==
    [origin : Origins, rotation : Rotations \cup {-90, 450}, yAxisUp : BOOLEAN,
     pixelsPerUnit : PpuValues]
TPoints ==
    {IPt(0, 0), IPt(0, 100), IPt(100, 0), IPt(150, 75), IPt(50, 50),
     Pt(Dec(1, 2), Dec(-3, 4))}

TransIdle ==
    /\ tSys = [origin |-> IPt(0, 0), rotation |-> 0, yAxisUp |-> TRUE,
               pixelsPerUnit |-> NULL]
    /\ tIn = IPt(0, 0)
    /\ tOp = "idle"
    /\ tOut = NULL
    /\ tBack = NULL

TransInit ==
    /\ tSys \in Systems
    /\ tIn \in TPoints
    /\ tOp = "idle"
    /\ tOut = NULL
    /\ tBack = NULL

CallPixelToWorld ==
    /\ tOp = "idle"
    /\ tOut' = pixelToWorld(tIn, tSys)
    /\ tOp' = "pixelToWorld"
    /\ UNCHANGED <<tSys, tIn, tBack, coordVars, kinVars, regVars, trackVars, tableVars, restVars>>

CallWorldToPixel ==
    /\ tOp = "idle"
    /\ tOut' = worldToPixel(tIn, tSys)
    /\ tOp' = "worldToPixel"
    /\ UNCHANGED <<tSys, tIn, tBack, coordVars, kinVars, regVars, trackVars, tableVars, restVars>>

\* worldToPixel(world!, system) on the result of pixelToWorld
CallBackToPixel ==
    /\ tOp = "pixelToWorld"
    /\ tOut # NULL
    /\ tBack' = worldToPixel(tOut, tSys)
    /\ tOp' = "pixelToWorldToPixel"
    /\ UNCHANGED <<tSys, tIn, tOut, coordVars, kinVars, regVars, trackVars, tableVars, restVars>>

\* pixelToWorld on the result of worldToPixel
CallBackToWorld ==
    /\ tOp = "worldToPixel"
    /\ tOut # NULL
    /\ tBack' = pixelToWorld(tOut, tSys)
    /\ tOp' = "worldToPixelToWorld"
    /\ UNCHANGED <<tSys, tIn, tOut, coordVars, kinVars, regVars, trackVars, tableVars, restVars>>

---------------------------------------------------------------------------
(* lib/kinematics.ts: calculateVelocity, calculateAcceleration *)

\* a DataPointWithWorld
Sample(t, x, y) == [time |-> t, x |-> x, y |-> y]

\* data[i], indices from 0
At(data, i) == data[i + 1]

\* mutant: the velocity at the second sample is refused as well
calculateVelocity_secondRefused(data, index) ==
    IF index <= 1 \/ index >= Len(data) - 1 THEN NULL
    ELSE LET prev == At(data, index - 1)
             next == At(data, index + 1)
             dt == RSub(next.time, prev.time)
         IN  IF dt = Zero THEN NULL
             ELSE LET vx == RDiv(RSub(next.x, prev.x), dt)
                      vy == RDiv(RSub(next.y, prev.y), dt)
                      speed == Sqrt(RAdd(RMul(vx, vx), RMul(vy, vy)))
                  IN  [vx |-> vx, vy |-> vy, speed |-> speed]

\* mutant: a forward difference, from the sample at index to the next one
calculateVelocity_forward(data, index) ==
    IF index <= 0 \/ index >= Len(data) - 1 THEN NULL
    ELSE LET prev == At(data, index)
             next == At(data, index + 1)
             dt == RSub(next.time, prev.time)
         IN  IF dt = Zero THEN NULL
             ELSE LET vx == RDiv(RSub(next.x, prev.x), dt)
                      vy == RDiv(RSub(next.y, prev.y), dt)
                      speed == Sqrt(RAdd(RMul(vx, vx), RMul(vy, vy)))
                  IN  [vx |-> vx, vy |-> vy, speed |-> speed]

calculateVelocity(data, index) ==
    IF index <= 0 \/ index >= Len(data) - 1 THEN NULL
    ELSE LET prev == At(data, index - 1)
             next == At(data, index + 1)
             dt == RSub(next.time, prev.time)
         IN  IF dt = Zero THEN NULL
             ELSE LET vx == RDiv(RSub(next.x, prev.x), dt)
                      vy == RDiv(RSub(next.y, prev.y), dt)
                      speed == Sqrt(RAdd(RMul(vx, vx), RMul(vy, vy)))
                  IN  [vx |-> vx, vy |-> vy, speed |-> speed]

\* mutant: the velocities are divided by the time from index-2 to index+2
calculateAcceleration_wideInterval(data, index) ==
    IF index <= 1 \/ index >= Len(data) - 2 THEN NULL
    ELSE LET vPrev == calculateVelocity(data, index - 1)
             vNext == calculateVelocity(data, index + 1)
         IN  IF vPrev = NULL \/ vNext = NULL THEN NULL
             ELSE LET dt == RSub(At(data, index + 2).time, At(data, index - 2).time)
                  IN  IF dt = Zero THEN NULL
                      ELSE [ax |-> RDiv(RSub(vNext.vx, vPrev.vx), dt),
                            ay |-> RDiv(RSub(vNext.vy, vPrev.vy), dt)]

calculateAcceleration(data, index) ==
    IF index <= 1 \/ index >= Len(data) - 2 THEN NULL
    ELSE LET vPrev == calculateVelocity(data, index - 1)
             vNext == calculateVelocity(data, index + 1)
         IN  IF vPrev = NULL \/ vNext = NULL THEN NULL
             ELSE LET dt == RSub(At(data, index + 1).time, At(data, index - 1).time)
                  IN  IF dt = Zero THEN NULL
                      ELSE [ax |-> RDiv(RSub(vNext.vx, vPrev.vx), dt),
                            ay |-> RDiv(RSub(vNext.vy, vPrev.vy), dt)]

---------------------------------------------------------------------------
(* a caller of calculateVelocity and calculateAcceleration *)

MaxSamples == 5

\* the positions of the samples, and the time from one sample to the next
\* (0: a duplicate timestamp); useTableData passes the samples in frame order
Positions == {IPt(0, 0), Pt(Num(3), Dec(-2, 5))}
TimeSteps == {Zero, Dec(1, 2), One}

\* the sequence of the acceleration test: x = t^2 / 2
AccelerationData ==
    << Sample(Num(0), Num(0), Zero), Sample(Num(1), Dec(1, 2), Zero),
       Sample(Num(2), Num(2), Zero), Sample(Num(3), Dec(9, 2), Zero),
       Sample(Num(4), Num(8), Zero) >>

\* the indices asked for: every sample, one before the first, one after the last
Indices(data) == -1 .. Len(data)

KinIdle == kData = <<>> /\ kOp = "idle" /\ kVel = NULL /\ kAcc = NULL

KinInit ==
    /\ kData \in {<<>>, AccelerationData}
    /\ kOp = "idle"
    /\ kVel = NULL
    /\ kAcc = NULL

\* one more sample is tracked
AppendSample(step, pos) ==
    /\ kOp = "idle"
    /\ Len(kData) < MaxSamples
    /\ LET t == IF kData = <<>> THEN Zero
                ELSE RAdd(kData[Len(kData)].time, step)
       IN  kData' = Append(kData, Sample(t, pos.x, pos.y))
    /\ UNCHANGED <<kOp, kVel, kAcc, coordVars, transVars, regVars, trackVars, tableVars, restVars>>

\* calculateVelocity at every index
CallCalculateVelocity ==
    /\ kOp = "idle"
    /\ kVel' = [i \in Indices(kData) |-> calculateVelocity(kData, i)]
    /\ kOp' = "calculateVelocity"
    /\ UNCHANGED <<kData, kAcc, coordVars, transVars, regVars, trackVars, tableVars, restVars>>

\* calculateAcceleration at every index
CallCalculateAcceleration ==
    /\ kOp = "idle"
    /\ kAcc' = [i \in Indices(kData) |-> calculateAcceleration(kData, i)]
    /\ kOp' = "calculateAcceleration"
    /\ UNCHANGED <<kData, kVel, coordVars, transVars, regVars, trackVars, tableVars, restVars>>

---------------------------------------------------------------------------
(* lib/kinematics.ts: linearRegression *)

\* the value of a running sum after the first k terms, added in order
RECURSIVE SumTo(_, _)
SumTo(terms, k) == IF k = 0 THEN Zero ELSE RAdd(SumTo(terms, k - 1), terms[k])

Sum(terms) == SumTo(terms, Len(terms))

linearRegression(points) ==
    LET n == Len(points)
    IN  IF n < 2 THEN NULL
        ELSE
        LET sumX  == Sum([k \in 1 .. n |-> points[k].x])
            sumY  == Sum([k \in 1 .. n |-> points[k].y])
            sumXY == Sum([k \in 1 .. n |-> RMul(points[k].x, points[k].y)])
            sumXX == Sum([k \in 1 .. n |-> RMul(points[k].x, points[k].x)])
            denominator == RSub(RMul(Num(n), sumXX), RMul(sumX, sumX))
        IN  IF denominator = Zero THEN NULL
            ELSE
            LET slope == RDiv(RSub(RMul(Num(n), sumXY), RMul(sumX, sumY)),
                              denominator)
                intercept == RDiv(RSub(sumY, RMul(slope, sumX)), Num(n))
                meanY == RDiv(sumY, Num(n))
                predicted(k) == RAdd(RMul(slope, points[k].x), intercept)
                ssTot == Sum([k \in 1 .. n |->
                                 RMul(RSub(points[k].y, meanY),
                                      RSub(points[k].y, meanY))])
                ssRes == Sum([k \in 1 .. n |->
                                 RMul(RSub(points[k].y, predicted(k)),
                                      RSub(points[k].y, predicted(k)))])
                rSquared == IF ssTot = Zero THEN One
                            ELSE RSub(One, RDiv(ssRes, ssTot))
            IN  [slope |-> slope, intercept |-> intercept, rSquared |-> rSquared]

---------------------------------------------------------------------------
(* a caller of linearRegression *)

MaxPoints == 3

\* the coordinates of the points: whole numbers and decimal fractions
XValues == {Num(0), Num(1), Num(2), Dec(7, 10)}
YValues == {Num(0), Num(1), Num(2), Num(4), Num(5), Dec(1, 10)}

RegIdle == rPoints = <<>> /\ rOp = "idle" /\ rOut = NULL

\* one more point of the graph
AppendPoint(x, y) ==
    /\ rOp = "idle"
    /\ Len(rPoints) < MaxPoints
    /\ rPoints' = Append(rPoints, Pt(x, y))
    /\ UNCHANGED <<rOp, rOut, coordVars, transVars, kinVars, trackVars, tableVars, restVars>>

CallLinearRegression ==
    /\ rOp = "idle"
    /\ rOut' = linearRegression(rPoints)
    /\ rOp' = "linearRegression"
    /\ UNCHANGED <<rPoints, coordVars, transVars, kinVars, trackVars, tableVars, restVars>>


---------------------------------------------------------------------------
(* stores/tracking.ts: the tracked points and their undo history *)

\* temporal(..., { limit: 50, partialize: (state) => ({ dataPoints }) })
limit == 50
partialize(points) == [dataPoints |-> points]

\* mutant: every point gets the same id
Uuid_same(n) == <<0>>

\* crypto.randomUUID(): the n-th id, a string that is no id handed out before
Uuid(n) == <<n>>

DataPoint(id, frameNumber, time, pixelX, pixelY) ==
    [id |-> id, frameNumber |-> frameNumber, time |-> time,
     pixelX |-> pixelX, pixelY |-> pixelY]

trackingInitialState ==
    [dataPoints |-> <<>>, selectedPointId |-> NULL, currentFrame |-> 0,
     isPlaying |-> FALSE, trailLength |-> 10, autoAdvance |-> TRUE]

DataOps == {"addPoint", "updatePoint", "deletePoint"}
UiOps   == {"selectPoint", "setCurrentFrame", "setIsPlaying", "setTrailLength",
            "setAutoAdvance"}

\* what the user of the store has seen once the operation op is done
Seen(op) ==
    /\ recent' = <<recent[2], recent[3], op>>
    /\ prevData' = dataPoints
    /\ baseData' = IF op \in DataOps THEN dataPoints ELSE baseData
    /\ afterData' = IF op \in DataOps THEN dataPoints' ELSE afterData
    /\ phase' = CASE op \in DataOps -> "mutated"
                  [] op \in UiOps /\ phase \in {"mutated", "mutatedUi"} -> "mutatedUi"
                  [] op = "undo" /\ phase = "mutated" -> "undone"
                  [] op = "undo" /\ phase = "mutatedUi" -> "undoneAfterUi"
                  [] op = "redo" /\ phase = "undone" -> "redone"
                  [] OTHER -> "other"
    /\ trail' = CASE op \in DataOps ->
                       IF trail # <<>> /\ undone = 0
                       THEN Append(trail, dataPoints') ELSE <<>>
                  [] op = "undo" -> trail
                  [] op = "clear" -> <<dataPoints>>
                  [] OTHER -> <<>>
    /\ undone' = IF op = "undo" /\ trail # <<>>
                 THEN (IF undone < Len(trail) THEN undone + 1 ELSE undone)
                 ELSE 0
    /\ opCount' = opCount + 1

\* the wrapped set of the temporal middleware: the partialized state from
\* before the call goes on the past states, the oldest one leaving at the
\* limit, and the future states are dropped
\* mutant: the future states survive a set
temporalHandleSet_futureKept ==
    /\ pastStates' = Append(IF Len(pastStates) >= limit THEN Tail(pastStates)
                            ELSE pastStates, partialize(dataPoints))
    /\ UNCHANGED futureStates

\* mutant: no limit on the past states
temporalHandleSet_unlimited ==
    /\ pastStates' = Append(pastStates, partialize(dataPoints))
    /\ futureStates' = <<>>

temporalHandleSet ==
    /\ pastStates' = Append(IF Len(pastStates) >= limit THEN Tail(pastStates)
                            ELSE pastStates, partialize(dataPoints))
    /\ futureStates' = <<>>

\* what addPoint does to the store and its history
AddPointInStore(point) ==
    /\ dataPoints' = Append(dataPoints,
                            DataPoint(Uuid(nextId), point.frameNumber, point.time,
                                      point.pixelX, point.pixelY))
    /\ nextId' = nextId + 1
    /\ UNCHANGED <<selectedPointId, currentFrame, isPlaying, trailLength, autoAdvance>>
    /\ temporalHandleSet
    /\ Seen("addPoint")

addPoint(point) ==
    /\ AddPointInStore(point)
    /\ UNCHANGED <<coordVars, transVars, kinVars, regVars, tableVars, restVars>>

\* state.dataPoints.find((p) => p.id === id): the first point with the id
FindPoint(points, id) ==
    IF \E i \in DOMAIN points : points[i].id = id
    THEN CHOOSE i \in DOMAIN points :
             /\ points[i].id = id
             /\ \A j \in 1 .. (i - 1) : points[j].id # id
    ELSE 0

\* mutant: the updated point becomes the selected one
updatePoint_selecting(id, pixelX, pixelY) ==
    /\ dataPoints' = IF FindPoint(dataPoints, id) = 0 THEN dataPoints
                     ELSE [dataPoints EXCEPT
                              ![FindPoint(dataPoints, id)].pixelX = pixelX,
                              ![FindPoint(dataPoints, id)].pixelY = pixelY]
    /\ selectedPointId' = id
    /\ UNCHANGED <<currentFrame, isPlaying, trailLength, autoAdvance, nextId>>
    /\ temporalHandleSet
    /\ Seen("updatePoint")
    /\ UNCHANGED <<coordVars, transVars, kinVars, regVars, tableVars, restVars>>

\* mutant: the update of a point leaves no past state
updatePoint_unrecorded(id, pixelX, pixelY) ==
    /\ dataPoints' = IF FindPoint(dataPoints, id) = 0 THEN dataPoints
                     ELSE [dataPoints EXCEPT
                              ![FindPoint(dataPoints, id)].pixelX = pixelX,
                              ![FindPoint(dataPoints, id)].pixelY = pixelY]
    /\ UNCHANGED <<selectedPointId, currentFrame, isPlaying, trailLength,
                   autoAdvance, nextId, pastStates, futureStates>>
    /\ Seen("updatePoint")
    /\ UNCHANGED <<coordVars, transVars, kinVars, regVars, tableVars, restVars>>

updatePoint(id, pixelX, pixelY) ==
    /\ dataPoints' = IF FindPoint(dataPoints, id) = 0 THEN dataPoints
                     ELSE [dataPoints EXCEPT
                              ![FindPoint(dataPoints, id)].pixelX = pixelX,
                              ![FindPoint(dataPoints, id)].pixelY = pixelY]
    /\ UNCHANGED <<selectedPointId, currentFrame, isPlaying, trailLength,
                   autoAdvance, nextId>>
    /\ temporalHandleSet
    /\ Seen("updatePoint")
    /\ UNCHANGED <<coordVars, transVars, kinVars, regVars, tableVars, restVars>>

\* mutant: the selection survives the delete of the selected point
deletePoint_selectionKept(id) ==
    /\ dataPoints' = SelectSeq(dataPoints, LAMBDA p : p.id # id)
    /\ UNCHANGED <<selectedPointId, currentFrame, isPlaying, trailLength,
                   autoAdvance, nextId>>
    /\ temporalHandleSet
    /\ Seen("deletePoint")
    /\ UNCHANGED <<coordVars, transVars, kinVars, regVars, tableVars, restVars>>

deletePoint(id) ==
    /\ dataPoints' = SelectSeq(dataPoints, LAMBDA p : p.id # id)
    /\ selectedPointId' = IF selectedPointId = id THEN NULL ELSE selectedPointId
    /\ UNCHANGED <<currentFrame, isPlaying, trailLength, autoAdvance, nextId>>
    /\ temporalHandleSet
    /\ Seen("deletePoint")
    /\ UNCHANGED <<coordVars, transVars, kinVars, regVars, tableVars, restVars>>

selectPoint(id) ==
    /\ selectedPointId' = id
    /\ UNCHANGED <<dataPoints, currentFrame, isPlaying, trailLength, autoAdvance, nextId>>
    /\ temporalHandleSet
    /\ Seen("selectPoint")
    /\ UNCHANGED <<coordVars, transVars, kinVars, regVars, tableVars, restVars>>

setCurrentFrame(frame) ==
    /\ currentFrame' = frame
    /\ UNCHANGED <<dataPoints, selectedPointId, isPlaying, trailLength, autoAdvance,
                   nextId>>
    /\ temporalHandleSet
    /\ Seen("setCurrentFrame")
    /\ UNCHANGED <<coordVars, transVars, kinVars, regVars, tableVars, restVars>>

setIsPlaying(playing) ==
    /\ isPlaying' = playing
    /\ UNCHANGED <<dataPoints, selectedPointId, currentFrame, trailLength, autoAdvance,
                   nextId>>
    /\ temporalHandleSet
    /\ Seen("setIsPlaying")
    /\ UNCHANGED <<coordVars, transVars, kinVars, regVars, tableVars, restVars>>

setTrailLength(length) ==
    /\ trailLength' = length
    /\ UNCHANGED <<dataPoints, selectedPointId, currentFrame, isPlaying, autoAdvance,
                   nextId>>
    /\ temporalHandleSet
    /\ Seen("setTrailLength")
    /\ UNCHANGED <<coordVars, transVars, kinVars, regVars, tableVars, restVars>>

setAutoAdvance(enabled) ==
    /\ autoAdvance' = enabled
    /\ UNCHANGED <<dataPoints, selectedPointId, currentFrame, isPlaying, trailLength,
                   nextId>>
    /\ temporalHandleSet
    /\ Seen("setAutoAdvance")
    /\ UNCHANGED <<coordVars, transVars, kinVars, regVars, tableVars, restVars>>

hydrateTracking(points) ==
    /\ dataPoints' = points
    /\ selectedPointId' = NULL
    /\ UNCHANGED <<currentFrame, isPlaying, trailLength, autoAdvance, nextId>>
    /\ temporalHandleSet
    /\ Seen("hydrate")
    /\ UNCHANGED <<coordVars, transVars, kinVars, regVars, tableVars, restVars>>

resetTracking ==
    /\ dataPoints' = trackingInitialState.dataPoints
    /\ selectedPointId' = trackingInitialState.selectedPointId
    /\ currentFrame' = trackingInitialState.currentFrame
    /\ isPlaying' = trackingInitialState.isPlaying
    /\ trailLength' = trackingInitialState.trailLength
    /\ autoAdvance' = trackingInitialState.autoAdvance
    /\ UNCHANGED nextId
    /\ temporalHandleSet
    /\ Seen("reset")
    /\ UNCHANGED <<coordVars, transVars, kinVars, regVars, tableVars, restVars>>

\* useTrackingStore.temporal.getState(): undo, redo and clear write the
\* store and the history without passing through the wrapped set
\* mutant: undo takes the past state off the history and leaves the points
undo_pointsKept ==
    /\ IF pastStates # <<>>
       THEN /\ pastStates' = SubSeq(pastStates, 1, Len(pastStates) - 1)
            /\ futureStates' = Append(futureStates, partialize(dataPoints))
            /\ UNCHANGED dataPoints
       ELSE UNCHANGED <<dataPoints, pastStates, futureStates>>
    /\ UNCHANGED <<selectedPointId, currentFrame, isPlaying, trailLength,
                   autoAdvance, nextId>>
    /\ Seen("undo")
    /\ UNCHANGED <<coordVars, transVars, kinVars, regVars, tableVars, restVars>>

undo ==
    /\ IF pastStates # <<>>
       THEN /\ dataPoints' = pastStates[Len(pastStates)].dataPoints
            /\ pastStates' = SubSeq(pastStates, 1, Len(pastStates) - 1)
            /\ futureStates' = Append(futureStates, partialize(dataPoints))
       ELSE UNCHANGED <<dataPoints, pastStates, futureStates>>
    /\ UNCHANGED <<selectedPointId, currentFrame, isPlaying, trailLength,
                   autoAdvance, nextId>>
    /\ Seen("undo")
    /\ UNCHANGED <<coordVars, transVars, kinVars, regVars, tableVars, restVars>>

\* mutant: redo also drops the selection
redo_selectionCleared ==
    /\ IF futureStates # <<>>
       THEN /\ dataPoints' = futureStates[Len(futureStates)].dataPoints
            /\ futureStates' = SubSeq(futureStates, 1, Len(futureStates) - 1)
            /\ pastStates' = Append(pastStates, partialize(dataPoints))
       ELSE UNCHANGED <<dataPoints, pastStates, futureStates>>
    /\ selectedPointId' = NULL
    /\ UNCHANGED <<currentFrame, isPlaying, trailLength, autoAdvance, nextId>>
    /\ Seen("redo")
    /\ UNCHANGED <<coordVars, transVars, kinVars, regVars, tableVars, restVars>>

redo ==
    /\ IF futureStates # <<>>
       THEN /\ dataPoints' = futureStates[Len(futureStates)].dataPoints
            /\ futureStates' = SubSeq(futureStates, 1, Len(futureStates) - 1)
            /\ pastStates' = Append(pastStates, partialize(dataPoints))
       ELSE UNCHANGED <<dataPoints, pastStates, futureStates>>
    /\ UNCHANGED <<selectedPointId, currentFrame, isPlaying, trailLength,
                   autoAdvance, nextId>>
    /\ Seen("redo")
    /\ UNCHANGED <<coordVars, transVars, kinVars, regVars, tableVars, restVars>>

clearHistory ==
    /\ pastStates' = <<>>
    /\ futureStates' = <<>>
    /\ UNCHANGED <<storeVars, nextId>>
    /\ Seen("clear")
    /\ UNCHANGED <<coordVars, transVars, kinVars, regVars, tableVars, restVars>>

TrackInit ==
    /\ dataPoints = trackingInitialState.dataPoints
    /\ selectedPointId = trackingInitialState.selectedPointId
    /\ currentFrame = trackingInitialState.currentFrame
    /\ isPlaying = trackingInitialState.isPlaying
    /\ trailLength = trackingInitialState.trailLength
    /\ autoAdvance = trackingInitialState.autoAdvance
    /\ pastStates = <<>>
    /\ futureStates = <<>>
    /\ nextId = 1
    /\ recent = <<"none", "none", "none">>
    /\ prevData = <<>>
    /\ baseData = <<>>
    /\ afterData = <<>>
    /\ phase = "other"
    /\ trail = << <<>> >>
    /\ undone = 0
    /\ opCount = 0

---------------------------------------------------------------------------
(* features/data-table: useTableData *)

\* Math.abs
RAbs(a) ==
    IF IsFinite(a) THEN <<Abs(a[1]), a[2]>>
    ELSE IF a = NaN THEN NaN ELSE <<1, 0, 0>>

\* where points[i] goes in [...points].sort((a, b) => a.frameNumber -
\* b.frameNumber): after the points of a smaller frame number and after the
\* earlier points of its own frame number (the sort of an array is stable)
SortedPlace(points, i) ==
    Cardinality({j \in DOMAIN points :
                    \/ points[j].frameNumber < points[i].frameNumber
                    \/ (points[j].frameNumber = points[i].frameNumber /\ j < i)}) + 1

\* mutant: the points are left in the order of the store
SortByFrameNumber_unsorted(points) == points

SortByFrameNumber(points) ==
    [k \in 1 .. Len(points) |->
        points[CHOOSE i \in DOMAIN points : SortedPlace(points, i) = k]]

\* mutant: a missing world position is reported as zero
WithWorld_zeroWhenAbsent(point, world) ==
    [id |-> point.id, frameNumber |-> point.frameNumber, time |-> point.time,
     pixelX |-> point.pixelX, pixelY |-> point.pixelY,
     worldX |-> IF world = NULL THEN Zero ELSE world.x,
     worldY |-> IF world = NULL THEN Zero ELSE world.y]

\* a sorted point with its world coordinates
WithWorld(point, world) ==
    [id |-> point.id, frameNumber |-> point.frameNumber, time |-> point.time,
     pixelX |-> point.pixelX, pixelY |-> point.pixelY,
     worldX |-> IF world = NULL THEN NULL ELSE world.x,
     worldY |-> IF world = NULL THEN NULL ELSE world.y]

SortedPoints(points, coordinateSystem) ==
    [k \in 1 .. Len(points) |->
        WithWorld(SortByFrameNumber(points)[k],
                  pixelToWorld(Pt(SortByFrameNumber(points)[k].pixelX,
                                  SortByFrameNumber(points)[k].pixelY),
                               coordinateSystem))]

HasWorld(p) == p.worldX # NULL /\ p.worldY # NULL

ToSamples(located) ==
    [k \in 1 .. Len(located) |->
        Sample(located[k].time, located[k].worldX, located[k].worldY)]

KinematicsData(sortedPoints) == ToSamples(SelectSeq(sortedPoints, HasWorld))

TimeMatches(k, point) == RLt(RAbs(RSub(k.time, point.time)), Dec(1, 10000))

\* kinematicsData.findIndex((k) => Math.abs(k.time - point.time) < 0.0001),
\* indices from 0
findIndex(kinematicsData, point) ==
    IF \E i \in DOMAIN kinematicsData : TimeMatches(kinematicsData[i], point)
    THEN (CHOOSE i \in DOMAIN kinematicsData :
              /\ TimeMatches(kinematicsData[i], point)
              /\ \A j \in 1 .. (i - 1) : ~TimeMatches(kinematicsData[j], point)) - 1
    ELSE -1

\* mutant: the pixel columns are taken from the world position
TableRow_pixelFromWorld(point, index, velocity, acceleration) ==
    [id |-> point.id, rowNumber |-> index + 1, frameNumber |-> point.frameNumber,
     time |-> point.time, pixelX |-> point.worldX, pixelY |-> point.worldY,
     worldX |-> point.worldX, worldY |-> point.worldY,
     vx |-> IF velocity = NULL THEN NULL ELSE velocity.vx,
     vy |-> IF velocity = NULL THEN NULL ELSE velocity.vy,
     speed |-> IF velocity = NULL THEN NULL ELSE velocity.speed,
     ax |-> IF acceleration = NULL THEN NULL ELSE acceleration.ax,
     ay |-> IF acceleration = NULL THEN NULL ELSE acceleration.ay]

TableRow(point, index, velocity, acceleration) ==
    [id |-> point.id, rowNumber |-> index + 1, frameNumber |-> point.frameNumber,
     time |-> point.time, pixelX |-> point.pixelX, pixelY |-> point.pixelY,
     worldX |-> point.worldX, worldY |-> point.worldY,
     vx |-> IF velocity = NULL THEN NULL ELSE velocity.vx,
     vy |-> IF velocity = NULL THEN NULL ELSE velocity.vy,
     speed |-> IF velocity = NULL THEN NULL ELSE velocity.speed,
     ax |-> IF acceleration = NULL THEN NULL ELSE acceleration.ax,
     ay |-> IF acceleration = NULL THEN NULL ELSE acceleration.ay]

RowAt(point, index, kinematicsData, kinematicsIndex) ==
    TableRow(point, index,
             IF kinematicsIndex >= 0
             THEN calculateVelocity(kinematicsData, kinematicsIndex) ELSE NULL,
             IF kinematicsIndex >= 0
             THEN calculateAcceleration(kinematicsData, kinematicsIndex) ELSE NULL)

TableRows(sortedPoints, kinematicsData) ==
    [k \in 1 .. Len(sortedPoints) |->
        RowAt(sortedPoints[k], k - 1, kinematicsData,
              findIndex(kinematicsData, sortedPoints[k]))]

useTableData(points, coordinateSystem) ==
    LET sortedPoints == SortedPoints(points, coordinateSystem)
        kinematicsData == KinematicsData(sortedPoints)
    IN  TableRows(sortedPoints, kinematicsData)

\* the coordinate system the table reads from the coordinate store
StoreSystem ==
    [origin |-> origin, rotation |-> rotation, yAxisUp |-> yAxisUp,
     pixelsPerUnit |-> pixelsPerUnit]

TableIdle ==
    /\ tabPoints = <<>>
    /\ tabSystem = [origin |-> IPt(0, 0), rotation |-> 0, yAxisUp |-> TRUE,
                    pixelsPerUnit |-> NULL]
    /\ tabOp = "idle"
    /\ tabRows = <<>>

\* the table is rendered from the two stores
RenderTable ==
    /\ tabPoints' = dataPoints
    /\ tabSystem' = StoreSystem
    /\ tabOp' = "useTableData"
    /\ tabRows' = useTableData(dataPoints, StoreSystem)
    /\ UNCHANGED <<coordVars, transVars, kinVars, regVars, trackVars, restVars>>

---------------------------------------------------------------------------
(* stores/video.ts: the video store *)

\* of the metadata of a video, the two fields the store computes with
VideoMetadata(frameRate, totalFrames) ==
    [frameRate |-> frameRate, totalFrames |-> totalFrames]

videoInitialState ==
    [metadata |-> NULL, currentFrame |-> 0, currentTime |-> Zero,
     isPlaying |-> FALSE, playbackSpeed |-> Num(1)]

Max(a, b) == IF a >= b THEN a ELSE b
Min(a, b) == IF a <= b THEN a ELSE b

\* mutant: only the upper end is clamped
clampedFrame_upperOnly(frame, totalFrames) == Min(frame, totalFrames - 1)

\* Math.max(0, Math.min(frame, metadata.totalFrames - 1))
clampedFrame(frame, totalFrames) == Max(0, Min(frame, totalFrames - 1))

\* what setCurrentFrame does to the store: nothing without metadata
SetCurrentFrameInStore(frame) ==
    /\ IF metadata = NULL
       THEN UNCHANGED <<metadata, videoFrame, videoTime, videoPlaying, playbackSpeed>>
       ELSE /\ videoFrame' = clampedFrame(frame, metadata.totalFrames)
            /\ videoTime' = RDiv(Num(videoFrame'), Num(metadata.frameRate))
            /\ UNCHANGED <<metadata, videoPlaying, playbackSpeed>>
    /\ vAsked' = <<frame>>

otherThanVideo ==
    <<coordVars, transVars, kinVars, regVars, trackVars, tableVars, routeVars,
      callVars, csvVars>>

\* mutant: the frame survives new metadata
setMetadata_frameKept(m) ==
    /\ metadata' = m
    /\ videoTime' = Zero
    /\ vAsked' = <<>>
    /\ UNCHANGED <<videoFrame, videoPlaying, playbackSpeed>>
    /\ UNCHANGED otherThanVideo

setMetadata(m) ==
    /\ metadata' = m
    /\ videoFrame' = 0
    /\ videoTime' = Zero
    /\ vAsked' = <<>>
    /\ UNCHANGED <<videoPlaying, playbackSpeed>>
    /\ UNCHANGED otherThanVideo

setVideoCurrentFrame(frame) ==
    /\ SetCurrentFrameInStore(frame)
    /\ UNCHANGED otherThanVideo

setVideoIsPlaying(playing) ==
    /\ videoPlaying' = playing
    /\ UNCHANGED <<metadata, videoFrame, videoTime, playbackSpeed, vAsked>>
    /\ UNCHANGED otherThanVideo

setPlaybackSpeed(speed) ==
    /\ playbackSpeed' = speed
    /\ UNCHANGED <<metadata, videoFrame, videoTime, videoPlaying, vAsked>>
    /\ UNCHANGED otherThanVideo

nextFrame ==
    /\ SetCurrentFrameInStore(videoFrame + 1)
    /\ UNCHANGED otherThanVideo

prevFrame ==
    /\ SetCurrentFrameInStore(videoFrame - 1)
    /\ UNCHANGED otherThanVideo

jumpFrames(delta) ==
    /\ SetCurrentFrameInStore(videoFrame + delta)
    /\ UNCHANGED otherThanVideo

goToFirstFrame ==
    /\ SetCurrentFrameInStore(0)
    /\ UNCHANGED otherThanVideo

goToLastFrame ==
    /\ IF metadata # NULL
       THEN SetCurrentFrameInStore(metadata.totalFrames - 1)
       ELSE UNCHANGED videoVars
    /\ UNCHANGED otherThanVideo

resetVideo ==
    /\ metadata' = videoInitialState.metadata
    /\ videoFrame' = videoInitialState.currentFrame
    /\ videoTime' = videoInitialState.currentTime
    /\ videoPlaying' = videoInitialState.isPlaying
    /\ playbackSpeed' = videoInitialState.playbackSpeed
    /\ vAsked' = <<>>
    /\ UNCHANGED otherThanVideo

VideoInit ==
    /\ metadata = videoInitialState.metadata
    /\ videoFrame = videoInitialState.currentFrame
    /\ videoTime = videoInitialState.currentTime
    /\ videoPlaying = videoInitialState.isPlaying
    /\ playbackSpeed = videoInitialState.playbackSpeed
    /\ vAsked = <<>>

---------------------------------------------------------------------------
(* routes/projects.$projectId.tsx: the project page *)

\* the null of PlacementMode
NoPlacement == "null"

RouteInit ==
    /\ mode = "setup"
    /\ placementMode = NoPlacement

\* the tabs of the page
setMode(v) ==
    /\ mode' = v
    /\ placementMode' = NoPlacement
    /\ UNCHANGED <<coordVars, transVars, kinVars, regVars, trackVars, tableVars,
                   videoVars, callVars, csvVars>>

handleScaleToolStart(pointMode) ==
    /\ placementMode' = IF pointMode = "point1" THEN "scale1" ELSE "scale2"
    /\ UNCHANGED mode
    /\ UNCHANGED <<coordVars, transVars, kinVars, regVars, trackVars, tableVars,
                   videoVars, callVars, csvVars>>

handleOriginToolStart ==
    /\ placementMode' = "origin"
    /\ UNCHANGED mode
    /\ UNCHANGED <<coordVars, transVars, kinVars, regVars, trackVars, tableVars,
                   videoVars, callVars, csvVars>>

\* a click on the canvas at the pixel (pixelX, pixelY): a placement under way
\* takes it, else in track mode with a video it becomes a point of the
\* current frame and the video goes on by one frame when autoAdvance is set
handleCanvasClick(pixelX, pixelY) ==
    /\ UNCHANGED <<transVars, kinVars, regVars, tableVars, callVars, csvVars>>
    /\ CASE placementMode = "scale1" ->
               /\ SetScalePoint1InStore([x |-> pixelX, y |-> pixelY])
               /\ placementMode' = "scale2"
               /\ UNCHANGED <<mode, trackVars, videoVars>>
         [] placementMode = "scale2" ->
               /\ SetScalePoint2InStore([x |-> pixelX, y |-> pixelY])
               /\ placementMode' = NoPlacement
               /\ UNCHANGED <<mode, trackVars, videoVars>>
         [] placementMode = "origin" ->
               /\ SetOriginInStore([x |-> pixelX, y |-> pixelY])
               /\ placementMode' = NoPlacement
               /\ UNCHANGED <<mode, trackVars, videoVars>>
         [] OTHER ->
               IF mode = "track" /\ metadata # NULL
               THEN /\ AddPointInStore([frameNumber |-> videoFrame,
                                        time |-> videoTime,
                                        pixelX |-> pixelX, pixelY |-> pixelY])
                    /\ IF autoAdvance
                       THEN SetCurrentFrameInStore(videoFrame + 1)
                       ELSE UNCHANGED videoVars
                    /\ UNCHANGED <<coordVars, routeVars>>
               ELSE UNCHANGED <<coordVars, trackVars, videoVars, routeVars>>

---------------------------------------------------------------------------
(* lib/export.ts: the CSV export *)

\* strings are sequences of characters; the values of a row are null,
\* undefined, a string or an integer
Null == [type |-> "null"]
Undefined == [type |-> "undefined"]
Str(chars) == [type |-> "string", value |-> chars]
Number(n) == [type |-> "number", number |-> n]

Digit(n) == <<"0", "1", "2", "3", "4", "5", "6", "7", "8", "9">>[n + 1]

RECURSIVE Digits(_)
Digits(n) == IF n < 10 THEN <<Digit(n)>> ELSE Append(Digits(n \div 10), Digit(n % 10))

\* String(value) of a string or an integer
String(value) ==
    IF value.type = "string" THEN value.value
    ELSE IF value.number < 0 THEN <<"-">> \o Digits(-value.number)
    ELSE Digits(value.number)

\* str.includes(ch)
Includes(str, ch) == \E i \in DOMAIN str : str[i] = ch

\* str.replace(/"/g, '""')
RECURSIVE ReplaceQuotes(_)
ReplaceQuotes(str) ==
    IF str = <<>> THEN <<>>
    ELSE (IF Head(str) = "\"" THEN <<"\"", "\"">> ELSE <<Head(str)>>)
             \o ReplaceQuotes(Tail(str))

\* mutant: the quotes inside a wrapped value stay single
escapeValue_quotesSingle(value) ==
    IF value = Null \/ value = Undefined THEN <<>>
    ELSE LET str == String(value)
         IN  IF Includes(str, ",") \/ Includes(str, "\"") \/ Includes(str, "\n")
             THEN <<"\"">> \o str \o <<"\"">>
             ELSE str

escapeValue(value) ==
    IF value = Null \/ value = Undefined THEN <<>>
    ELSE LET str == String(value)
         IN  IF Includes(str, ",") \/ Includes(str, "\"") \/ Includes(str, "\n")
             THEN <<"\"">> \o ReplaceQuotes(str) \o <<"\"">>
             ELSE str

\* strs.join(sep)
RECURSIVE Join(_, _)
Join(strs, sep) ==
    IF strs = <<>> THEN <<>>
    ELSE IF Len(strs) = 1 THEN strs[1]
    ELSE strs[1] \o sep \o Join(Tail(strs), sep)

\* row[col], undefined for a key the row has not
Lookup(row, col) == IF col \in DOMAIN row THEN row[col] ELSE Undefined

generateCSV(data, columns) ==
    LET header == Join(columns, <<",">>)
        rows == [i \in DOMAIN data |->
                    Join([j \in DOMAIN columns |->
                             escapeValue(Lookup(data[i], columns[j]))], <<",">>)]
    IN  Join(<<header>> \o rows, <<"\n">>)

CsvIdle ==
    /\ cData = <<>>
    /\ cColumns = <<>>
    /\ cOp = "idle"
    /\ cOut = <<>>

CallGenerateCSV ==
    /\ cOp = "idle"
    /\ cOp' = "generateCSV"
    /\ cOut' = generateCSV(cData, cColumns)
    /\ UNCHANGED <<cData, cColumns>>
    /\ UNCHANGED <<coordVars, transVars, kinVars, regVars, trackVars, tableVars,
                   videoVars, routeVars, callVars>>

---------------------------------------------------------------------------
(* Specifications *)

\* the coordinate store
Init == CoordInit /\ TransIdle /\ KinIdle /\ RegIdle /\ TrackInit /\ TableIdle
    /\ VideoInit /\ RouteInit /\ CallIdle /\ CsvIdle

Next ==
    \/ \E point \in ScalePts \cup {NULL} : setScalePoint1(point)
    \/ \E point \in ScalePts \cup {NULL} : setScalePoint2(point)
    \/ \E distance \in Distances \cup {NULL} : setScaleDistance(distance)
    \/ \E unit \in Units : setScaleUnit(unit)
    \/ \E point \in Origins : setOrigin(point)
    \/ \E degrees \in Rotations : setRotation(degrees)
    \/ \E up \in BOOLEAN : setYAxisUp(up)
    \/ \E system \in SavedSystems : hydrate(system)
    \/ reset

Spec == Init /\ [][Next]_vars

\* the transforms, on every system and point of the bounded sets
TransNext ==
    \/ CallPixelToWorld
    \/ CallWorldToPixel
    \/ CallBackToPixel
    \/ CallBackToWorld

TransStart == CoordInit /\ TransInit /\ KinIdle /\ RegIdle /\ TrackInit /\ TableIdle
    /\ VideoInit /\ RouteInit /\ CallIdle /\ CsvIdle

TransSpec == TransStart /\ [][TransNext]_vars

\* the kinematics, on every sequence of the bounded sets
KinNext ==
    \/ \E step \in TimeSteps, pos \in Positions : AppendSample(step, pos)
    \/ CallCalculateVelocity
    \/ CallCalculateAcceleration

KinStart == CoordInit /\ TransIdle /\ KinInit /\ RegIdle /\ TrackInit /\ TableIdle
    /\ VideoInit /\ RouteInit /\ CallIdle /\ CsvIdle

KinSpec == KinStart /\ [][KinNext]_vars

\* the regression, on every sequence of points of the bounded sets
RegNext ==
    \/ \E x \in XValues, y \in YValues : AppendPoint(x, y)
    \/ CallLinearRegression

RegStart == CoordInit /\ TransIdle /\ KinIdle /\ RegIdle /\ TrackInit /\ TableIdle
    /\ VideoInit /\ RouteInit /\ CallIdle /\ CsvIdle

RegSpec == RegStart /\ [][RegNext]_vars

\* the data table, on the points clicked in any order of frames and under the
\* systems the coordinate store goes through, until the table is rendered
MaxRows == 5
Frames == 0 .. 2

\* a click on the canvas during tracking: the current frame and its time,
\* the n-th click landing at its own place
Clicked(frame, n) ==
    [frameNumber |-> frame, time |-> Dec(frame, 2),
     pixelX |-> Num(10 * frame * frame), pixelY |-> Num(5 * n)]

TableNext ==
    \/ /\ tabOp = "idle"
       /\ Len(dataPoints) < MaxRows
       /\ \E frame \in Frames : addPoint(Clicked(frame, Len(dataPoints)))
    \/ tabOp = "idle" /\ setScalePoint1(IPt(0, 0))
    \/ tabOp = "idle" /\ setScalePoint2(IPt(100, 0))
    \/ tabOp = "idle" /\ setRotation(90)
    \/ tabOp = "idle" /\ reset
    \/ tabOp = "idle" /\ RenderTable

TableStart == CoordInit /\ TransIdle /\ KinIdle /\ RegIdle /\ TrackInit /\ TableIdle
    /\ VideoInit /\ RouteInit /\ CallIdle /\ CsvIdle

TableSpec == TableStart /\ [][TableNext]_vars

\* the tracking store and its history, on every sequence of at most MaxOps
\* operations
MaxOps == 4

\* the ids of the first two points added, the second one unknown to the
\* store until then, and the id of a saved point
PointIds == {Uuid(1), Uuid(2), Uuid(101)}

\* what a saved project can hold
SavedPoints ==
    {<<>>,
     <<DataPoint(Uuid(101), 0, Zero, Num(1), Num(2)),
       DataPoint(Uuid(102), 1, Dec(1, 2), Num(3), Num(4))>>}

MayAct == opCount < MaxOps

TrackNext ==
    \/ MayAct /\ \E frame \in 0 .. 1 : addPoint(Clicked(frame, frame))
    \/ MayAct /\ \E id \in PointIds : updatePoint(id, Num(7), Num(9))
    \/ MayAct /\ \E id \in PointIds : deletePoint(id)
    \/ MayAct /\ \E id \in {Uuid(1), NULL} : selectPoint(id)
    \/ MayAct /\ setCurrentFrame(1)
    \/ MayAct /\ setIsPlaying(TRUE)
    \/ MayAct /\ setTrailLength(25)
    \/ MayAct /\ setAutoAdvance(FALSE)
    \/ MayAct /\ \E points \in SavedPoints : hydrateTracking(points)
    \/ MayAct /\ resetTracking
    \/ MayAct /\ undo
    \/ MayAct /\ redo
    \/ MayAct /\ clearHistory
    \/ setYAxisUp(FALSE)

\* the video store, on videos of up to MaxFrames frames and on frame
\* requests below, within and beyond them
MaxFrames == 60

Videos ==
    {VideoMetadata(30, 0), VideoMetadata(30, 3), VideoMetadata(25, MaxFrames)}
FrameRequests == {-5, -1, 0, 1, 2, 3, 51, MaxFrames - 1, MaxFrames, MaxFrames + 440}
Deltas == {-10, -1, 1, 10}
Speeds == {Dec(1, 2), Num(1), Num(2)}

VideoNext ==
    \/ \E m \in Videos : setMetadata(m)
    \/ \E frame \in FrameRequests : setVideoCurrentFrame(frame)
    \/ \E playing \in BOOLEAN : setVideoIsPlaying(playing)
    \/ \E speed \in Speeds : setPlaybackSpeed(speed)
    \/ nextFrame
    \/ prevFrame
    \/ \E delta \in Deltas : jumpFrames(delta)
    \/ goToFirstFrame
    \/ goToLastFrame
    \/ resetVideo

VideoStart == CoordInit /\ TransIdle /\ KinIdle /\ RegIdle /\ TrackInit /\ TableIdle
    /\ VideoInit /\ RouteInit /\ CallIdle /\ CsvIdle

VideoSpec == VideoStart /\ [][VideoNext]_vars

\* the project page and the upload of a video of three frames: tools, tabs, clicks on the
\* canvas, frame navigation, the auto-advance switch, undo and redo, the
\* tracking store taking at most MaxClicks operations
MaxClicks == 3

MayClick == opCount < MaxClicks

ClickNext ==
    \/ metadata = NULL /\ setMetadata(VideoMetadata(30, 3))
    \/ \E v \in {"setup", "track", "analyze"} : setMode(v)
    \/ \E pointMode \in {"point1", "point2"} : handleScaleToolStart(pointMode)
    \/ handleOriginToolStart
    \/ /\ placementMode = NoPlacement => MayClick
       /\ handleCanvasClick(Num(10), Num(20))
    \/ nextFrame
    \/ prevFrame
    \/ MayClick /\ \E advance \in BOOLEAN : setAutoAdvance(advance)
    \/ MayClick /\ undo
    \/ MayClick /\ redo

ClickStart == CoordInit /\ TransIdle /\ KinIdle /\ RegIdle /\ TrackInit /\ TableIdle
    /\ VideoInit /\ RouteInit /\ CallIdle /\ CsvIdle

ClickSpec == ClickStart /\ [][ClickNext]_vars

\* the transforms of the coordinate store in every state the store goes
\* through, on two points
StorePoints == {IPt(0, 0), IPt(150, 75)}

StoreTransNext ==
    \/ sOp = "idle" /\ Next
    \/ sOp = "idle" /\ \E pixel \in StorePoints : CallStorePixelToWorld(pixel)
    \/ sOp = "idle" /\ \E world \in StorePoints : CallStoreWorldToPixel(world)

StoreTransStart == CoordInit /\ TransIdle /\ KinIdle /\ RegIdle /\ TrackInit
    /\ TableIdle /\ VideoInit /\ RouteInit /\ CallIdle /\ CsvIdle

StoreTransSpec == StoreTransStart /\ [][StoreTransNext]_vars

\* the CSV export, on every table of up to MaxCsvRows rows and of one to
\* MaxCsvColumns columns, a column being a key of the rows or not
MaxCsvRows == 2
MaxCsvColumns == 2

CsvValues ==
    {Null, Undefined, Str(<<"a", "b">>), Str(<<"a", ",", "b">>),
     Str(<<"\"", "a", "\"">>), Str(<<"a", "\n", "b">>), Number(-12)}
CsvKeys == {<<"t">>, <<"x">>}
CsvRows ==
    {row \in [CsvKeys -> CsvValues] :
        row[<<"x">>] \in {Undefined, Str(<<"a", ",", "b">>)}}
CsvColumns == {<<"t">>, <<"x">>, <<"y">>}

SeqsUpTo(S, n) == UNION {[1 .. k -> S] : k \in 0 .. n}

CsvInit ==
    /\ cData \in SeqsUpTo(CsvRows, MaxCsvRows)
    /\ cColumns \in SeqsUpTo(CsvColumns, MaxCsvColumns) \ {<<>>}
    /\ cOp = "idle"
    /\ cOut = <<>>

CsvNext == CallGenerateCSV

CsvStart == CoordInit /\ TransIdle /\ KinIdle /\ RegIdle /\ TrackInit /\ TableIdle
    /\ VideoInit /\ RouteInit /\ CallIdle /\ CsvInit

CsvSpec == CsvStart /\ [][CsvNext]_vars

\* the tracking store when only points it holds are selected: at most MaxOps
\* of its operations on points and on the selection, of undo and of redo
SelectNext ==
    \/ MayAct /\ \E frame \in 0 .. 1 : addPoint(Clicked(frame, frame))
    \/ MayAct /\ \E id \in PointIds : updatePoint(id, Num(7), Num(9))
    \/ MayAct /\ \E id \in PointIds : deletePoint(id)
    \/ MayAct /\ \E id \in PointIds \cup {NULL} :
           /\ id = NULL \/ \E i \in DOMAIN dataPoints : dataPoints[i].id = id
           /\ selectPoint(id)
    \/ MayAct /\ \E points \in SavedPoints : hydrateTracking(points)
    \/ MayAct /\ resetTracking
    \/ MayAct /\ undo
    \/ MayAct /\ redo

SelectStart == CoordInit /\ TransIdle /\ KinIdle /\ RegIdle /\ TrackInit /\ TableIdle
    /\ VideoInit /\ RouteInit /\ CallIdle /\ CsvIdle

SelectSpec == SelectStart /\ [][SelectNext]_vars

\* the history at its limit: mutations from an empty history, the first
\* MaxEdits of them of any kind and then adds only, up to one more than the
\* limit, followed by undos
MaxEdits == 3

MayMutate == recent[3] # "undo" /\ trail # <<>> /\ Len(trail) <= limit + 1

HistNext ==
    \/ MayMutate /\ addPoint(Clicked(0, 0))
    \/ MayMutate /\ Len(trail) <= MaxEdits /\ updatePoint(Uuid(1), Num(7), Num(9))
    \/ MayMutate /\ Len(trail) <= MaxEdits /\ deletePoint(Uuid(1))
    \/ undone < Len(trail) /\ undo

HistStart == CoordInit /\ TransIdle /\ KinIdle /\ RegIdle /\ TrackInit /\ TableIdle
    /\ VideoInit /\ RouteInit /\ CallIdle /\ CsvIdle

HistSpec == HistStart /\ [][HistNext]_vars

TrackStart == CoordInit /\ TransIdle /\ KinIdle /\ RegIdle /\ TrackInit /\ TableIdle
    /\ VideoInit /\ RouteInit /\ CallIdle /\ CsvIdle

TrackSpec == TrackStart /\ [][TrackNext]_vars

---------------------------------------------------------------------------
(* Properties of the transforms, under TransSpec *)

Calibrated(system) == system.pixelsPerUnit # NULL /\ system.pixelsPerUnit # Zero

\* the four steps of the specification, each on its own
StepTranslate(p, o) == Pt(RSub(p.x, o.x), RSub(p.y, o.y))
StepRotate(v, deg) ==
    Pt(RAdd(RMul(v.x, CosDeg(deg)), RMul(v.y, SinDeg(deg))),
       RSub(RMul(v.y, CosDeg(deg)), RMul(v.x, SinDeg(deg))))
StepFlip(v, up) == IF up THEN Pt(v.x, RNeg(v.y)) ELSE v
StepScale(v, ppu) == Pt(RDiv(v.x, ppu), RDiv(v.y, ppu))

\* no rounding in a + b, a * b, a / b (finite operands, b # 0 in a / b)
AddExact(a, b) ==
    \/ a[1] = 0
    \/ b[1] = 0
    \/ /\ Abs(a[2] - b[2]) <= Precision
       /\ LET lo == IF a[2] < b[2] THEN a[2] ELSE b[2]
          IN  RAdd(a, b) = Canon(a[1] * 2^(a[2] - lo) + b[1] * 2^(b[2] - lo), lo)
MulExact(a, b) == RMul(a, b) = Canon(a[1] * b[1], a[2] + b[2])
DivExact(a, b) ==
    LET q == RDiv(a, b) IN Canon(q[1] * b[1], q[2] + b[2]) = a

\* the division by pixelsPerUnit in pixelToWorld(pixel, system) is exact
ScaleDivisionExact(pixel, system) ==
    LET v == StepFlip(StepRotate(StepTranslate(pixel, system.origin),
                                 system.rotation), system.yAxisUp)
    IN  DivExact(v.x, system.pixelsPerUnit) /\ DivExact(v.y, system.pixelsPerUnit)

\* the subtraction of the origin in pixelToWorld(pixel, system) is exact
TranslationExact(pixel, system) ==
    /\ AddExact(pixel.x, RNeg(system.origin.x))
    /\ AddExact(pixel.y, RNeg(system.origin.y))

\* the multiplication by pixelsPerUnit and the addition of the origin in
\* worldToPixel(world, system), rotation 0, are exact
ScaleAndShiftExact(world, system) ==
    /\ MulExact(world.x, system.pixelsPerUnit)
    /\ MulExact(world.y, system.pixelsPerUnit)
    /\ AddExact(RMul(world.x, system.pixelsPerUnit), system.origin.x)
    /\ AddExact(RMul(world.y, system.pixelsPerUnit), system.origin.y)

\* C1 as stated: with pixelsPerUnit present and non-zero, the round trip
\* pixel -> world -> pixel and the round trip world -> pixel -> world return
\* the point they started from exactly, for every rotation that is a
\* multiple of 90 degrees, whenever the scale division is exact.
C1_RoundTripExactAtRightAngles ==
    /\ (tOp = "pixelToWorldToPixel" /\ ScaleDivisionExact(tIn, tSys))
           => tBack = tIn
    /\ (tOp = "worldToPixelToWorld" /\ ScaleDivisionExact(tOut, tSys))
           => tBack = tIn

\* C1, amended: the round trips are made for every system with
\* pixelsPerUnit present and non-zero, and with rotation 0 they return the
\* point they started from exactly whenever the translation by the origin
\* and the scaling by pixelsPerUnit do not round.
C1_RoundTripExactUnrotated ==
    /\ (tOp \in {"pixelToWorld", "worldToPixel"} /\ Calibrated(tSys)) => tOut # NULL
    /\ tOp \in {"pixelToWorldToPixel", "worldToPixelToWorld"} => tBack # NULL
    /\ (/\ tOp = "pixelToWorldToPixel"
        /\ tSys.rotation = 0
        /\ TranslationExact(tIn, tSys)
        /\ ScaleDivisionExact(tIn, tSys))
           => tBack = tIn
    /\ (/\ tOp = "worldToPixelToWorld"
        /\ tSys.rotation = 0
        /\ ScaleAndShiftExact(tIn, tSys))
           => tBack = tIn

C1_Witness ==
    /\ tOp = "pixelToWorldToPixel"
    /\ tSys = [origin |-> IPt(50, 50), rotation |-> 0, yAxisUp |-> TRUE,
               pixelsPerUnit |-> Num(100)]
    /\ tIn = IPt(150, 75)
    /\ TranslationExact(tIn, tSys)
    /\ ScaleDivisionExact(tIn, tSys)
    /\ tOut = Pt(One, Dec(-1, 4))
    /\ tBack = IPt(150, 75)

\* C2: pixelToWorld and worldToPixel return null exactly when pixelsPerUnit
\* is null or zero; in every other case they return a point with finite
\* coordinates (nothing was divided by zero, nothing failed).
C2_NullIffUncalibrated ==
    tOp # "idle" =>
        /\ (tOut = NULL) <=> (tSys.pixelsPerUnit = NULL \/ tSys.pixelsPerUnit = Zero)
        /\ tOut # NULL => IsFinite(tOut.x) /\ IsFinite(tOut.y)
        /\ pixelToWorld(tIn, tSys) = NULL <=> ~Calibrated(tSys)
        /\ worldToPixel(tIn, tSys) = NULL <=> ~Calibrated(tSys)

C2_Witness ==
    /\ tOp = "worldToPixel"
    /\ tSys.pixelsPerUnit = Zero
    /\ tSys.rotation = 270
    /\ tIn = IPt(150, 75)
    /\ tOut = NULL

\* C3: with calibration present pixelToWorld is translate, then rotate by
\* -rotation, then negate Y iff yAxisUp, then divide by pixelsPerUnit; the
\* origin pixel maps to (0,0); with origin (0,0), rotation 0 and scale 100
\* the pixel (0,100) maps to (0,-1) if yAxisUp and to (0,1) if not.
C3_FourSteps ==
    (tOp \in {"pixelToWorld", "pixelToWorldToPixel"} /\ Calibrated(tSys)) =>
        /\ tOut = StepScale(StepFlip(StepRotate(StepTranslate(tIn, tSys.origin),
                                                tSys.rotation),
                                     tSys.yAxisUp),
                            tSys.pixelsPerUnit)
        /\ tIn = tSys.origin => tOut = IPt(0, 0)
        /\ (/\ tIn = IPt(0, 100)
            /\ tSys.origin = IPt(0, 0)
            /\ tSys.rotation = 0
            /\ tSys.pixelsPerUnit = Num(100))
               => tOut = IPt(0, IF tSys.yAxisUp THEN -1 ELSE 1)

C3_Witness ==
    /\ tOp = "pixelToWorld"
    /\ tIn = IPt(0, 100)
    /\ tSys = [origin |-> IPt(0, 0), rotation |-> 0, yAxisUp |-> TRUE,
               pixelsPerUnit |-> Num(100)]
    /\ tOut = IPt(0, -1)

---------------------------------------------------------------------------
(* Properties of the coordinate store, under Spec *)

\* C4: in every reachable state of the store the stored pixelsPerUnit is the
\* value recomputed from the current scalePoint1, scalePoint2 and
\* scaleDistance; no operation leaves it stale.
C4_NeverStale ==
    pixelsPerUnit = recalculatePixelsPerUnit(scalePoint1, scalePoint2, scaleDistance)

C4_Witness ==
    /\ scalePoint1 = IPt(0, 0)
    /\ scalePoint2 = IPt(100, 75)
    /\ scaleDistance = Num(2)
    /\ rotation = 180
    /\ scaleUnit = "ft"
    /\ pixelsPerUnit = Dec(125, 2)

Positive(d) == d # NULL /\ IsFinite(d) /\ d[1] > 0
Distance(p, q) ==
    Sqrt(RAdd(RMul(RSub(q.x, p.x), RSub(q.x, p.x)),
              RMul(RSub(q.y, p.y), RSub(q.y, p.y))))

\* C5: pixelsPerUnit is null unless both scale points are set and
\* scaleDistance is positive, and otherwise it is the distance between the
\* scale points divided by scaleDistance; for (0,0), (100,0) and distance 1
\* it is 100.
C5_PixelsPerUnit ==
    /\ pixelsPerUnit = NULL <=>
           ~(scalePoint1 # NULL /\ scalePoint2 # NULL /\ Positive(scaleDistance))
    /\ pixelsPerUnit # NULL =>
           pixelsPerUnit = RDiv(Distance(scalePoint1, scalePoint2), scaleDistance)
    /\ (scalePoint1 = IPt(0, 0) /\ scalePoint2 = IPt(100, 0) /\ scaleDistance = One)
           => pixelsPerUnit = Num(100)

C5_Witness ==
    /\ scalePoint1 = IPt(0, 0)
    /\ scalePoint2 = IPt(100, 0)
    /\ scaleDistance = One
    /\ pixelsPerUnit = Num(100)

---------------------------------------------------------------------------
(* Properties of the kinematics, under KinSpec *)

\* t[i+1] - t[i-1]
CentralDt(data, i) == RSub(At(data, i + 1).time, At(data, i - 1).time)

\* data with the sample at index i replaced
Replaced(data, i, s) == [k \in 1 .. Len(data) |-> IF k = i + 1 THEN s ELSE data[k]]

StrictlyIncreasing(data) ==
    \A k \in 1 .. Len(data) - 1 : RLt(data[k].time, data[k + 1].time)

\* C7: for N samples with strictly increasing times the velocity is defined
\* exactly at the indices 1..N-2 and the acceleration exactly at 2..N-3;
\* fewer than 3 samples have no velocity, fewer than 5 no acceleration.
C7_DefinedRange ==
    StrictlyIncreasing(kData) =>
        /\ kOp = "calculateVelocity" =>
               /\ \A i \in Indices(kData) :
                      kVel[i] # NULL <=> (1 <= i /\ i <= Len(kData) - 2)
               /\ Len(kData) < 3 => \A i \in Indices(kData) : kVel[i] = NULL
        /\ kOp = "calculateAcceleration" =>
               /\ \A i \in Indices(kData) :
                      kAcc[i] # NULL <=> (2 <= i /\ i <= Len(kData) - 3)
               /\ Len(kData) < 5 => \A i \in Indices(kData) : kAcc[i] = NULL

C7_Witness ==
    /\ kOp = "calculateAcceleration"
    /\ Len(kData) = 5
    /\ kData # AccelerationData
    /\ StrictlyIncreasing(kData)
    /\ kAcc[1] = NULL
    /\ kAcc[2] # NULL
    /\ kAcc[3] = NULL

\* C8: calculateAcceleration returns null within 2 of either end, when the
\* velocity at i-1 or at i+1 is null, and when t[i+1] - t[i-1] is 0;
\* otherwise ax = (vx(i+1) - vx(i-1)) / (t[i+1] - t[i-1]) and ay likewise;
\* x = 0, 0.5, 2, 4.5, 8 at t = 0..4 gives ax = 1 at index 2.
C8_Acceleration ==
    kOp = "calculateAcceleration" =>
        /\ \A i \in Indices(kData) :
               /\ kAcc[i] = NULL <=>
                      \/ i <= 1
                      \/ i >= Len(kData) - 2
                      \/ calculateVelocity(kData, i - 1) = NULL
                      \/ calculateVelocity(kData, i + 1) = NULL
                      \/ CentralDt(kData, i) = Zero
               /\ kAcc[i] # NULL =>
                      /\ kAcc[i].ax = RDiv(RSub(calculateVelocity(kData, i + 1).vx,
                                                calculateVelocity(kData, i - 1).vx),
                                           CentralDt(kData, i))
                      /\ kAcc[i].ay = RDiv(RSub(calculateVelocity(kData, i + 1).vy,
                                                calculateVelocity(kData, i - 1).vy),
                                           CentralDt(kData, i))
        /\ kData = AccelerationData => kAcc[2].ax = One

C8_Witness ==
    /\ kOp = "calculateAcceleration"
    /\ kData = AccelerationData
    /\ kAcc[2] = [ax |-> One, ay |-> Zero]

---------------------------------------------------------------------------
(* Properties of the regression, under RegSpec *)

AllXIdentical(points) ==
    \A j, k \in 1 .. Len(points) : points[j].x = points[k].x

IsFiniteResult(r) ==
    IsFinite(r.slope) /\ IsFinite(r.intercept) /\ IsFinite(r.rSquared)

\* C9: linearRegression returns null for fewer than 2 points and for points
\* whose x values are all identical, returns a result in every other case,
\* and no result comes from a division by zero.
C9_NullIffDegenerate ==
    rOp = "linearRegression" =>
        /\ rOut = NULL <=> (Len(rPoints) < 2 \/ AllXIdentical(rPoints))
        /\ rOut # NULL => IsFiniteResult(rOut)

\* every point has y = m * x + b, with nothing rounded
OnLine(points, m, b) ==
    \A k \in 1 .. Len(points) :
        /\ MulExact(m, points[k].x)
        /\ AddExact(RMul(m, points[k].x), b)
        /\ points[k].y = RAdd(RMul(m, points[k].x), b)

Slopes == {Num(0), Num(1), Num(2)}

\* C10: for at least 2 points exactly on a line y = m * x + b, with at
\* least two distinct x values, linearRegression returns slope m,
\* intercept b and rSquared 1; a constant series is the case m = 0.
C10_ExactFit ==
    (rOp = "linearRegression" /\ Len(rPoints) >= 2 /\ ~AllXIdentical(rPoints)) =>
        \A m \in Slopes, b \in YValues :
            OnLine(rPoints, m, b) =>
                /\ rOut # NULL
                /\ rOut.slope = m
                /\ rOut.intercept = b
                /\ rOut.rSquared = One


---------------------------------------------------------------------------
(* Properties of the data table, under TableSpec *)

Rendered == tabOp = "useTableData"

\* where the point of this id stands in the store
PlaceOf(points, id) == CHOOSE i \in DOMAIN points : points[i].id = id

\* C11: the table has exactly one row for every tracked point, with the ids
\* of the points and none dropped, with or without a calibration; the rows
\* are in ascending frame number, rows of one frame number in the order the
\* points stand in the store, and the k-th row has the row number k.
C11_OneRowPerPoint ==
    Rendered =>
        /\ Len(tabRows) = Len(tabPoints)
        /\ \A i \in DOMAIN tabPoints :
               Cardinality({k \in DOMAIN tabRows : tabRows[k].id = tabPoints[i].id}) = 1
        /\ \A k \in DOMAIN tabRows : tabRows[k].rowNumber = k
        /\ \A k, l \in DOMAIN tabRows :
               k < l =>
                   /\ tabRows[k].frameNumber <= tabRows[l].frameNumber
                   /\ tabRows[k].frameNumber = tabRows[l].frameNumber =>
                          PlaceOf(tabPoints, tabRows[k].id)
                              < PlaceOf(tabPoints, tabRows[l].id)

\* a table of three points or more, stored out of the order of their frames,
\* two of them on one frame, rendered without a calibration
C11_Witness ==
    /\ Rendered
    /\ Len(tabPoints) >= 3
    /\ tabSystem.pixelsPerUnit = NULL
    /\ \E i, j \in DOMAIN tabPoints :
           i < j /\ tabPoints[i].frameNumber > tabPoints[j].frameNumber
    /\ \E i, j \in DOMAIN tabPoints :
           i < j /\ tabPoints[i].frameNumber = tabPoints[j].frameNumber


\* the sorted points and the kinematics sequence the rendered table was built on
TabSorted == SortedPoints(tabPoints, tabSystem)
TabKinematics == KinematicsData(TabSorted)

\* C12: under a calibrated system the kinematics index found by matching times
\* is the row's own position in the kinematics sequence, so that vx, vy,
\* speed, ax and ay of a row are the ones computed at the row's own position.
C12_OwnPosition ==
    (Rendered /\ Calibrated(tabSystem)) =>
        \A k \in DOMAIN tabRows :
            /\ findIndex(TabKinematics, TabSorted[k]) = k - 1
            /\ tabRows[k] = RowAt(TabSorted[k], k - 1, TabKinematics, k - 1)


\* C13: when pixelsPerUnit is absent every row has worldX, worldY, vx, vy,
\* speed, ax and ay null, never zero, and still reports id, frameNumber,
\* time, pixelX and pixelY of its point.
C13_UncalibratedRows ==
    (Rendered /\ tabSystem.pixelsPerUnit = NULL) =>
        \A k \in DOMAIN tabRows :
            /\ tabRows[k].worldX = NULL /\ tabRows[k].worldY = NULL
            /\ tabRows[k].vx = NULL /\ tabRows[k].vy = NULL
            /\ tabRows[k].speed = NULL
            /\ tabRows[k].ax = NULL /\ tabRows[k].ay = NULL
            /\ \E i \in DOMAIN tabPoints :
                   /\ tabRows[k].id = tabPoints[i].id
                   /\ tabRows[k].frameNumber = tabPoints[i].frameNumber
                   /\ tabRows[k].time = tabPoints[i].time
                   /\ tabRows[k].pixelX = tabPoints[i].pixelX
                   /\ tabRows[k].pixelY = tabPoints[i].pixelY

\* an uncalibrated table of points on three different frames, whose middle
\* row would have a velocity under a calibration
C13_Witness ==
    /\ Rendered
    /\ tabSystem.pixelsPerUnit = NULL
    /\ Len(tabRows) >= 3
    /\ \A k, l \in DOMAIN tabRows : k # l => tabRows[k].time # tabRows[l].time
    /\ \E k \in DOMAIN tabRows : tabRows[k].pixelX # Zero


\* other systems the same points can be tabulated under
OtherSystems ==
    {[origin |-> IPt(50, 50), rotation |-> 90, yAxisUp |-> FALSE,
      pixelsPerUnit |-> Dec(1, 2)],
     [origin |-> IPt(50, 50), rotation |-> 0, yAxisUp |-> TRUE,
      pixelsPerUnit |-> NULL]}

\* the columns of a row that identify the point and its pixel position
Identity(row) ==
    <<row.id, row.rowNumber, row.frameNumber, row.time, row.pixelX, row.pixelY>>

IdentityColumns(rows) == [k \in DOMAIN rows |-> Identity(rows[k])]

---------------------------------------------------------------------------
(* Properties of the tracking store and its history, under TrackSpec *)

\* C15: an undo right after an add, update or delete of a point gives
\* dataPoints the value it had before that mutation, and a redo right after
\* that undo gives it the value it had after the mutation.
C15_UndoRedo ==
    /\ (recent[3] = "undo" /\ recent[2] \in DataOps) => dataPoints = baseData
    /\ (recent[3] = "redo" /\ recent[2] = "undo" /\ recent[1] \in DataOps) =>
           dataPoints = afterData

\* add A, add B, undo, redo: B is back
C15_Witness ==
    /\ recent = <<"addPoint", "undo", "redo">>
    /\ Len(dataPoints) = 2
    /\ Len(baseData) = 1
    /\ dataPoints # baseData


\* C17: only the add, update and delete of a point make an undo step; the
\* changes of the selection, the current frame, the playing flag, the trail
\* length and the auto-advance flag and the changes of the coordinate store
\* add nothing to the history, so that after a mutation followed by any
\* number of such changes a single undo reverts the mutation.
C17_OnlyMutationsAreSteps ==
    phase \in {"undone", "undoneAfterUi"} => dataPoints = baseData

\* C19: an add, update or delete of a point after an undo clears the redo
\* history; the redo that follows leaves dataPoints as it is.
C19_RedoCleared ==
    /\ (recent[2] = "undo" /\ recent[3] \in DataOps) => futureStates = <<>>
    /\ (recent[1] = "undo" /\ recent[2] \in DataOps /\ recent[3] = "redo") =>
           dataPoints = prevData

\* add A, undo, add B, redo: B alone stays
C19_Witness ==
    /\ recent = <<"undo", "addPoint", "redo">>
    /\ opCount = 4
    /\ nextId = 3
    /\ Len(dataPoints) = 1
    /\ dataPoints[1].id = Uuid(2)

\* C20: hydrate(points) replaces all the points and clears the selection,
\* and is no undo step: an undo right after it does not bring back the
\* points from before it.
C20_HydrateNotUndoable ==
    /\ recent[3] = "hydrate" =>
           dataPoints \in SavedPoints /\ selectedPointId = NULL
    /\ (recent[2] = "hydrate" /\ recent[3] = "undo") => dataPoints = prevData

\* C21: undo and redo change dataPoints only: selectedPointId, currentFrame,
\* isPlaying, trailLength and autoAdvance of the tracking store and the whole
\* coordinate store are after an undo or a redo what they were before it.
C21_UndoRedoFrame ==
    [][(undo \/ redo) =>
           UNCHANGED <<selectedPointId, currentFrame, isPlaying, trailLength,
                       autoAdvance, coordVars>>]_vars

\* a redo that brought a point back while a point was selected, the trail
\* length changed and the y axis of the coordinate store turned down
C21_Witness ==
    /\ recent[3] = "redo"
    /\ dataPoints # prevData
    /\ (selectedPointId # NULL \/ trailLength = 25)
    /\ yAxisUp = FALSE

Ids(points) == {points[i].id : i \in DOMAIN points}

DistinctIds(points) ==
    \A i, j \in DOMAIN points : i # j => points[i].id # points[j].id

\* what addPoint(point) makes of the points: the old ones in their order and
\* one more, with the fields given and an id none of the old ones has
AppendedOne(point) ==
    /\ Len(dataPoints') = Len(dataPoints) + 1
    /\ SubSeq(dataPoints', 1, Len(dataPoints)) = dataPoints
    /\ dataPoints'[Len(dataPoints')].frameNumber = point.frameNumber
    /\ dataPoints'[Len(dataPoints')].time = point.time
    /\ dataPoints'[Len(dataPoints')].pixelX = point.pixelX
    /\ dataPoints'[Len(dataPoints')].pixelY = point.pixelY
    /\ dataPoints'[Len(dataPoints')].id \notin Ids(dataPoints)

\* C22: addPoint appends exactly one point with the given frameNumber, time,
\* pixelX and pixelY and an id that no point of the set has, and leaves the
\* points there and their order as they are; so the ids stay pairwise
\* distinct through every sequence of add, update, delete, undo and redo.
C22_FreshId ==
    [][/\ \A frame \in 0 .. 1 :
              addPoint(Clicked(frame, frame)) => AppendedOne(Clicked(frame, frame))
       /\ DistinctIds(dataPoints')]_vars

\* a second point added after an undo and a redo
C22_Witness ==
    /\ recent = <<"undo", "redo", "addPoint">>
    /\ Len(dataPoints) = 2
    /\ nextId = 3

\* what updatePoint(id, {x, y}) makes of the tracking state
MovedOnly(id, x, y) ==
    /\ UNCHANGED <<selectedPointId, currentFrame, isPlaying, trailLength, autoAdvance>>
    /\ IF id \notin Ids(dataPoints) THEN dataPoints' = dataPoints
       ELSE /\ Len(dataPoints') = Len(dataPoints)
            /\ \A i \in DOMAIN dataPoints :
                   IF dataPoints[i].id = id
                   THEN dataPoints'[i] =
                            DataPoint(id, dataPoints[i].frameNumber,
                                      dataPoints[i].time, x, y)
                   ELSE dataPoints'[i] = dataPoints[i]

\* C23: updatePoint(id, position) changes pixelX and pixelY of the point with
\* that id and nothing else: its id, frameNumber and time, the other points,
\* the order and the selection stay; when no point has the id the tracking
\* state stays as it is (and the call returns normally).
C23_UpdateFrame ==
    [][\A id \in PointIds :
           updatePoint(id, Num(7), Num(9)) => MovedOnly(id, Num(7), Num(9))]_vars

\* the second of two points moved while the first one is selected
C23_Witness ==
    /\ recent[3] = "updatePoint"
    /\ Len(dataPoints) = 2
    /\ dataPoints[1] = prevData[1]
    /\ dataPoints[2] # prevData[2]
    /\ selectedPointId = Uuid(1)

\* the sequence without its i-th element
Without(points, i) ==
    [k \in 1 .. (Len(points) - 1) |-> IF k < i THEN points[k] ELSE points[k + 1]]

\* what deletePoint(id) makes of the points and the selection
RemovedOne(id) ==
    /\ IF id \in Ids(dataPoints)
       THEN dataPoints' = Without(dataPoints, FindPoint(dataPoints, id))
       ELSE dataPoints' = dataPoints
    /\ IF selectedPointId = id THEN selectedPointId' = NULL
       ELSE selectedPointId' = selectedPointId

\* C24: deletePoint(id) removes exactly the point with that id and keeps the
\* other points in their order; selectedPointId becomes null if and only if
\* the deleted id was the selected one and is unchanged otherwise.
C24_DeleteExactlyOne ==
    [][\A id \in PointIds : deletePoint(id) => RemovedOne(id)]_vars

\* the first of two points deleted while it was selected
C24_Witness ==
    /\ recent = <<"addPoint", "selectPoint", "deletePoint">>
    /\ Len(prevData) = 2
    /\ Len(dataPoints) = 1
    /\ dataPoints[1] = prevData[2]
    /\ selectedPointId = NULL

---------------------------------------------------------------------------
(* Properties of the selection, under SelectSpec *)

\* C29: after any sequence of addPoint, updatePoint, deletePoint, selectPoint
\* of an existing id or of null, hydrate, reset, undo and redo,
\* selectedPointId is null or the id of a point in dataPoints
C29_SelectionExists ==
    selectedPointId = NULL \/ \E i \in DOMAIN dataPoints : dataPoints[i].id = selectedPointId

---------------------------------------------------------------------------
(* Properties of the transforms of the coordinate store, under StoreTransSpec *)

\* C30: in every state of the store and on every point, the pixelToWorld and
\* the worldToPixel of the store return what the ones of the library return
\* on the origin, rotation, yAxisUp and pixelsPerUnit of the store, an absent
\* result when the calibration is incomplete included
C30_StoreAsLibrary ==
    /\ sOp = "pixelToWorld" => sOut = pixelToWorld(sIn, StoreSystem)
    /\ sOp = "worldToPixel" => sOut = worldToPixel(sIn, StoreSystem)

---------------------------------------------------------------------------
(* Properties of the CSV export, under CsvSpec *)

\* a reader of RFC 4180 text: the records of the text, each the sequence of
\* its fields with the quoting taken off; no records for a text that is not
\* well formed.  at is "start" at the start of a field, "plain" in a bare
\* field, "quoted" inside quotes and "closed" after the closing quote
RECURSIVE ReadCsv(_, _, _, _, _, _)
ReadCsv(text, i, at, field, record, records) ==
    IF i > Len(text)
    THEN IF at = "quoted" THEN <<>> ELSE Append(records, Append(record, field))
    ELSE LET ch == text[i]
         IN  IF at = "quoted"
             THEN IF ch = "\""
                  THEN IF i < Len(text) /\ text[i + 1] = "\""
                       THEN ReadCsv(text, i + 2, "quoted", Append(field, "\""),
                                    record, records)
                       ELSE ReadCsv(text, i + 1, "closed", field, record, records)
                  ELSE ReadCsv(text, i + 1, "quoted", Append(field, ch), record,
                               records)
             ELSE IF ch = ","
             THEN ReadCsv(text, i + 1, "start", <<>>, Append(record, field), records)
             ELSE IF ch = "\n"
             THEN ReadCsv(text, i + 1, "start", <<>>, <<>>,
                          Append(records, Append(record, field)))
             ELSE IF ch = "\""
             THEN IF at = "start"
                  THEN ReadCsv(text, i + 1, "quoted", field, record, records)
                  ELSE <<>>
             ELSE IF at = "closed" THEN <<>>
             ELSE ReadCsv(text, i + 1, "plain", Append(field, ch), record, records)

\* what a cell shows: nothing for null and undefined, else the string form
Shown(value) ==
    IF value = Null \/ value = Undefined THEN <<>> ELSE String(value)

ShownRow(row, columns) == [j \in DOMAIN columns |-> Shown(Lookup(row, columns[j]))]

NeedsQuotes(str) == Includes(str, ",") \/ Includes(str, "\"") \/ Includes(str, "\n")

\* C28: generateCSV renders null and undefined as the empty string, wraps a
\* value with a comma, a double quote or a newline in double quotes with its
\* quotes doubled, leaves every other value as its plain string form and
\* returns the header line alone for empty data; every data line has exactly
\* one field per requested column
C28_CsvFields ==
    cOp = "generateCSV" =>
        /\ cData = <<>> => cOut = Join(cColumns, <<",">>)
        /\ ReadCsv(cOut, 1, "start", <<>>, <<>>, <<>>)
               = <<cColumns>> \o [i \in DOMAIN cData |-> ShownRow(cData[i], cColumns)]
        /\ (\A i \in DOMAIN cData : \A j \in DOMAIN cColumns :
                ~NeedsQuotes(ShownRow(cData[i], cColumns)[j]))
             => cOut = Join(<<Join(cColumns, <<",">>)>>
                              \o [i \in DOMAIN cData |->
                                     Join(ShownRow(cData[i], cColumns), <<",">>)],
                            <<"\n">>)
        /\ \A i \in DOMAIN cData :
               Len(cColumns) = 1 /\ NeedsQuotes(ShownRow(cData[i], cColumns)[1])
               => \E before, after \in 0 .. Len(cOut) :
                     /\ before + after + 2 <= Len(cOut)
                     /\ cOut[before + 1] = "\""
                     /\ cOut[Len(cOut) - after] = "\""
                     /\ ReadCsv(SubSeq(cOut, before + 1, Len(cOut) - after), 1,
                                "start", <<>>, <<>>, <<>>)
                            = <<ShownRow(cData[i], cColumns)>>

C28_Witness ==
    /\ cOp = "generateCSV"
    /\ cColumns = <<<<"t">>, <<"y">>>>
    /\ Len(cData) = 2
    /\ cData[1][<<"t">>] = Str(<<"\"", "a", "\"">>)
    /\ cData[2][<<"t">>] = Null
    /\ cOut = <<"t", ",", "y", "\n",
                "\"", "\"", "\"", "a", "\"", "\"", "\"", ",", "\n", ",">>

---------------------------------------------------------------------------
(* Properties of the video store, under VideoSpec *)

\* the bound of 0 .. totalFrames - 1 nearest to the frame asked for
NearestFrame(frame, totalFrames) ==
    IF frame < 0 THEN 0
    ELSE IF frame > totalFrames - 1 THEN totalFrames - 1
    ELSE frame

\* C26: once metadata with totalFrames >= 1 is set, currentFrame is within
\* 0 .. totalFrames - 1 after any sequence of setCurrentFrame with any
\* integer, nextFrame, prevFrame, jumpFrames, goToFirstFrame, goToLastFrame,
\* setMetadata and reset, a request out of the range ending on the bound
\* nearest to it
C26_FrameInRange ==
    metadata # NULL /\ metadata.totalFrames >= 1 =>
        /\ videoFrame \in 0 .. metadata.totalFrames - 1
        /\ vAsked # <<>> => videoFrame = NearestFrame(vAsked[1], metadata.totalFrames)

C26_Witness ==
    /\ metadata # NULL
    /\ metadata.totalFrames = MaxFrames
    /\ vAsked = <<MaxFrames + 440>>
    /\ videoFrame = MaxFrames - 1

\* C27 as stated: with metadata set, currentTime is currentFrame / frameRate
\* and currentTime * frameRate is currentFrame, after any sequence of frame
\* navigation, setMetadata, setIsPlaying, setPlaybackSpeed and reset
C27_TimeTimesRate ==
    metadata # NULL =>
        /\ videoTime = RDiv(Num(videoFrame), Num(metadata.frameRate))
        /\ RMul(videoTime, Num(metadata.frameRate)) = Num(videoFrame)

\* C27: with metadata set, currentTime is the quotient currentFrame /
\* frameRate as the numbers of the machine give it, after any sequence of
\* frame navigation, setMetadata, setIsPlaying, setPlaybackSpeed and reset
C27_TimeOfFrame ==
    metadata # NULL =>
        videoTime = RDiv(Num(videoFrame), Num(metadata.frameRate))

C27_Witness ==
    /\ metadata # NULL
    /\ videoFrame = 51
    /\ videoTime = RDiv(Num(51), Num(25))
    /\ RMul(videoTime, Num(25)) # Num(51)
    /\ videoPlaying
    /\ playbackSpeed = Num(2)

---------------------------------------------------------------------------
(* Properties of the project page, under ClickSpec *)

\* C25: after any sequence of canvas clicks in track mode, with auto-advance
\* on or off, interleaved with frame navigation, undo and redo, no two
\* tracked points share a frameNumber
C25_OnePointPerFrame ==
    \A i, j \in DOMAIN dataPoints :
        i # j => dataPoints[i].frameNumber # dataPoints[j].frameNumber

---------------------------------------------------------------------------
(* Properties of the history at its limit, under HistSpec *)

\* the mutations made since the history was empty, none of them undone yet
\* when the first undo came
Mutations == Len(trail) - 1

\* C16: every add, update or delete of a point is exactly one undo step:
\* after k of them from an empty history, k at most 50, the j-th undo in a
\* row leaves the points as they were after the first k - j mutations.
C16_OneStepPerMutation ==
    (trail # <<>> /\ Mutations <= limit /\ undone >= 1 /\ undone <= Mutations) =>
        dataPoints = trail[Mutations - undone + 1]

\* 50 mutations, an update and a delete among them, and 50 undos
C16_Witness ==
    /\ trail # <<>>
    /\ Mutations = limit
    /\ undone = limit
    /\ \E i \in 1 .. (Len(trail) - 1) :
           Len(trail[i + 1]) = Len(trail[i]) /\ trail[i + 1] # trail[i]
    /\ \E i \in 1 .. (Len(trail) - 1) : Len(trail[i + 1]) < Len(trail[i])

\* every mutation since the empty history added a point to the empty set
AddsOnly ==
    trail # <<>> /\ \A i \in DOMAIN trail : Len(trail[i]) = i - 1

\* C18: the history never holds more than 50 steps; after 51 adds from an
\* empty set 50 undos leave exactly the first point, and one undo more
\* changes nothing.
C18_AtMostFiftySteps ==
    /\ Len(pastStates) <= limit
    /\ (AddsOnly /\ Mutations = limit + 1 /\ undone >= limit) =>
           /\ Len(dataPoints) = 1
           /\ dataPoints = trail[2]

\* 51 adds and 51 undos
C18_Witness ==
    /\ AddsOnly
    /\ Mutations = limit + 1
    /\ undone = limit + 1
    /\ recent[3] = "undo"

===========================================================================
